---- MODULE Spec2Model ----
(***************************************************************************)
(* A model of the hypersim 4D polytope pipeline: the pose operations of    *)
(* Shape4D, Hypercube, Simplex4D and SixteenCell, the pygame Camera and    *)
(* the two 4D-to-3D perspective projections.                               *)
(*                                                                         *)
(* Numbers.  Angles are counted in quarter turns (1 = pi/2, TwoPi = 4), so *)
(* that cos and sin are exactly -1, 0 or 1 and every matrix is an integer  *)
(* matrix; floating-point rounding is not modelled.  Python's None is the  *)
(* empty tuple <<>> and an optional number is <<>> or <<n>>.               *)
(***************************************************************************)
EXTENDS Integers, Sequences, FiniteSets, TLC

VARIABLES
    cls,               \* the class of the polytope under test
    position,          \* self.position (Shape4D, Simplex4D, SixteenCell)
    rotation,          \* Shape4D.rotation: plane -> angle
    rotationKeys,      \* Shape4D.rotation: the dict's iteration order
    scale,             \* Shape4D.scale
    transform_matrix,  \* Shape4D._transform_matrix (<<>> is None)
    transform_dirty,   \* Shape4D._transform_dirty
    transform,         \* self.transform (Hypercube, Simplex4D, SixteenCell)
    ret,               \* the value returned by the last call (<<>> is None)
    err,               \* the exception raised by the last call, or "none"
    lastOp,            \* the last call: [kind, args]
    pre,               \* the object's fields before the last call
    undone,            \* the fields before the call before it, if the last two
                       \* calls were rotate by a and by -a in one plane; or <<>>
    lastPos,           \* the position of the last accepted set_position, or <<>>
    rotAcc,            \* the product of the rotations applied by rotate so far
    everRotated,       \* a rotate call has been made
    everScaled,        \* a scale call has been made
    steps,             \* number of calls made so far
    owner,             \* which class holds the camera fields below
    camera_position,   \* Camera.position / PygameRenderer.camera_pos, in units of move_speed
    camera_target,     \* .target, in the same units
    camera_up,         \* .up
    distance,          \* .distance, a fraction <<numerator, denominator>>
    view_matrix,       \* .view_matrix
    points_4d,         \* the 4D point handed to a projection
    proj_distance,     \* the distance handed to a projection
    projected,         \* what the projection returned (<<>> before the call)
    viewport,          \* <<width, height>> of the surface, the camera and the z-buffer
    screen_point,      \* what Camera.project_4d_to_2d returned (<<>> before the call)
    zbuffer,           \* scene.zbuffer: cell <<x, y>> -> depth
    draws,             \* the calls made on the surface, in order
    segment,           \* what the last draw_line_4d call did; after render(), what the
                       \* first call of the frame that reached the z-buffering did
    objects,           \* scene.objects: the classes of the objects, in insertion order
    frames,            \* number of render() calls made
    rasterized,        \* the draw_line_4d calls of the last render(): <<object, edge>>
    run,               \* PygameRenderer.run: its position, flags, pending events and calls
    mouse,             \* camera.is_rotating, camera.last_mouse_pos and the drags applied
    sim                \* Simulation: _running, the clock and the calls of run

polyVars == <<cls, position, rotation, rotationKeys, scale, transform_matrix,
              transform_dirty, transform, ret, err, lastOp, pre, undone,
              lastPos, rotAcc, everRotated, everScaled, steps>>

cameraVars == <<owner, camera_position, camera_target, camera_up, distance, view_matrix>>

projVars == <<points_4d, proj_distance, projected>>

rasterVars == <<viewport, screen_point, zbuffer, draws, segment, objects, frames,
                rasterized>>

loopVars == <<run, mouse, sim>>

vars == <<polyVars, cameraVars, projVars, rasterVars, loopVars>>

(***************************************************************************)
(* Bounds                                                                  *)
(***************************************************************************)
MaxSteps == 3

(***************************************************************************)
(* Vectors and 4x4 matrices                                                *)
(***************************************************************************)
TwoPi == 4

PlaneOrder == <<"xy", "xz", "xw", "yz", "yw", "zw">>

PlaneSet == {PlaneOrder[i] : i \in 1..6}

PlaneAxes(plane) ==
    CASE plane = "xy" -> <<1, 2>>
      [] plane = "xz" -> <<1, 3>>
      [] plane = "xw" -> <<1, 4>>
      [] plane = "yz" -> <<2, 3>>
      [] plane = "yw" -> <<2, 4>>
      [] plane = "zw" -> <<3, 4>>

Cos(a) == CASE a % 4 = 0 -> 1 [] a % 4 = 1 -> 0 [] a % 4 = 2 -> -1 [] a % 4 = 3 -> 0

Sin(a) == CASE a % 4 = 0 -> 0 [] a % 4 = 1 -> 1 [] a % 4 = 2 -> 0 [] a % 4 = 3 -> -1

\* Vectors and matrices are written as explicit tuples, which TLC evaluates
\* once, where a function constructor would be re-evaluated at every use.
Identity == << <<1, 0, 0, 0>>, <<0, 1, 0, 0>>, <<0, 0, 1, 0>>, <<0, 0, 0, 1>> >>

Dot(A, B, i, j) ==
    A[i][1] * B[1][j] + A[i][2] * B[2][j] + A[i][3] * B[3][j] + A[i][4] * B[4][j]

MatRow(A, B, i) == <<Dot(A, B, i, 1), Dot(A, B, i, 2), Dot(A, B, i, 3), Dot(A, B, i, 4)>>

MatMul(A, B) == <<MatRow(A, B, 1), MatRow(A, B, 2), MatRow(A, B, 3), MatRow(A, B, 4)>>

RowDot(A, v, i) == A[i][1] * v[1] + A[i][2] * v[2] + A[i][3] * v[3] + A[i][4] * v[4]

MatVec(A, v) == <<RowDot(A, v, 1), RowDot(A, v, 2), RowDot(A, v, 3), RowDot(A, v, 4)>>

VecAdd(u, v) == <<u[1] + v[1], u[2] + v[2], u[3] + v[3], u[4] + v[4]>>

VecScale(s, v) == <<s * v[1], s * v[2], s * v[3], s * v[4]>>

Column(A, j) == <<A[1][j], A[2][j], A[3][j], A[4][j]>>

\* A with column 3 (the last one) overwritten by the first four values of p
WithLastColumn(A, p) ==
    << <<A[1][1], A[1][2], A[1][3], p[1]>>,
       <<A[2][1], A[2][2], A[2][3], p[2]>>,
       <<A[3][1], A[3][2], A[3][3], p[3]>>,
       <<A[4][1], A[4][2], A[4][3], p[4]>> >>

create_translation_matrix_4d(x, y, z, w) == WithLastColumn(Identity, <<x, y, z, w>>)

create_scale_matrix_4d(sx, sy, sz, sw) ==
    << <<sx, 0, 0, 0>>, <<0, sy, 0, 0>>, <<0, 0, sz, 0>>, <<0, 0, 0, sw>> >>

\* entry (i, j) of one "if angle_pq != 0" block: the identity with a
\* cos/sin block on the plane's two axes p < q
\* the rotation block with the sign of the upper sine lost: [[c, s], [s, c]]
RotEntry_SignSlip(p, q, a, i, j) ==
    CASE i = p /\ j = p -> Cos(a)
      [] i = p /\ j = q -> Sin(a)
      [] i = q /\ j = p -> Sin(a)
      [] i = q /\ j = q -> Cos(a)
      [] OTHER -> IF i = j THEN 1 ELSE 0

RotEntry(p, q, a, i, j) ==
    CASE i = p /\ j = p -> Cos(a)
      [] i = p /\ j = q -> 0 - Sin(a)
      [] i = q /\ j = p -> Sin(a)
      [] i = q /\ j = q -> Cos(a)
      [] OTHER -> IF i = j THEN 1 ELSE 0

RotRow(p, q, a, i) ==
    <<RotEntry(p, q, a, i, 1), RotEntry(p, q, a, i, 2),
      RotEntry(p, q, a, i, 3), RotEntry(p, q, a, i, 4)>>

PlaneRotation(plane, a) ==
    LET p == PlaneAxes(plane)[1]
        q == PlaneAxes(plane)[2]
    IN <<RotRow(p, q, a, 1), RotRow(p, q, a, 2), RotRow(p, q, a, 3), RotRow(p, q, a, 4)>>

\* a keyword-argument mapping completed with the default 0.0
Full(args) == [p \in PlaneSet |-> IF p \in DOMAIN args THEN args[p] ELSE 0]

Single(plane, a) == [p \in {plane} |-> a]

\* for the planes order[k], order[k+1], ... in turn: if the angle is not 0,
\* left-multiply M by that plane's rotation
RECURSIVE ApplyRotations(_, _, _, _)
ApplyRotations(order, angles, M, k) ==
    IF k > Len(order) THEN M
    ELSE ApplyRotations(order, angles,
            IF angles[order[k]] # 0
                THEN MatMul(PlaneRotation(order[k], angles[order[k]]), M)
                ELSE M,
            k + 1)

create_rotation_matrix_4d(angles) == ApplyRotations(PlaneOrder, angles, Identity, 1)

(***************************************************************************)
(* Inputs                                                                  *)
(***************************************************************************)
Zero4 == <<0, 0, 0, 0>>

\* positions handed to set_position: two of length 4, one shorter, one longer
PositionInputs == {Zero4, <<1, 0, 0, 2>>, <<1, 2, 3>>, <<1, 2, 3, 4, 5>>}

\* set_position(x=.., y=.., z=.., w=..): each coordinate is optional
XYZWInputs == {<< <<1>>, <<>>, <<>>, <<2>> >>}

TranslateInputs == {<<0, 1, 0, 1>>}

\* keyword arguments of rotate: every plane alone by a quarter turn either
\* way, and one call that names two planes
RotateInputs ==
    {Single(p, a) : p \in PlaneSet, a \in {1, -1}} \cup {[p \in {"xy", "xw"} |-> 1]}

\* keyword arguments of set_rotation: more than a full turn, and a negative angle
SetRotationInputs == {[p \in {"xy", "zw"} |-> IF p = "xy" THEN 5 ELSE -1]}

ScaleInputs == {-1, 0, 2}

(***************************************************************************)
(* Call history                                                            *)
(***************************************************************************)
NoOp == [kind |-> "none", args |-> <<>>]

Snap == [position |-> position, rotation |-> rotation, scale |-> scale,
         transform_matrix |-> transform_matrix,
         transform_dirty |-> transform_dirty, transform |-> transform]

\* b names one plane and a names the same plane with the opposite angle
IsInverse(a, b) ==
    /\ Cardinality(DOMAIN b) = 1
    /\ DOMAIN a = DOMAIN b
    /\ \A p \in DOMAIN a : a[p] = 0 - b[p]

Record(kind, args) ==
    /\ lastOp' = [kind |-> kind, args |-> args]
    /\ pre' = Snap
    /\ undone' = IF kind = "rotate" /\ lastOp.kind = "rotate" /\ IsInverse(args, lastOp.args)
                    THEN pre ELSE <<>>
    /\ steps' = steps + 1

(***************************************************************************)
(* Shape4D (core/shape_4d.py)                                              *)
(***************************************************************************)
\* the local-space vertices a concrete shape supplies
ShapeVertices == << <<1, 1, 1, 1>>, <<-1, 1, -1, 1>>, <<2, 0, 1, -1>> >>

\* the loop "for plane, angle in self.rotation.items()"
RECURSIVE RotationLoop(_, _, _, _)
RotationLoop(keys, rot, M, k) ==
    IF k > Len(keys) THEN M
    ELSE RotationLoop(keys, rot,
            IF rot[keys[k]] # 0
                THEN MatMul(create_rotation_matrix_4d(Full(Single(keys[k], rot[keys[k]]))), M)
                ELSE M,
            k + 1)

\* _update_transform_matrix: the matrix it leaves in _transform_matrix, the
\* value of _transform_dirty afterwards and the exception raised, if any
\* (position[3] of a position shorter than 4 raises IndexError before the
\* translation is applied and before the flag is cleared)
UpdateTransformMatrix(pos, rot, keys, sc, dirty) ==
    LET R == RotationLoop(keys, rot, Identity, 1)
        S == IF sc # 1 THEN MatMul(create_scale_matrix_4d(sc, sc, sc, sc), R) ELSE R
    IN IF Len(pos) < 4
          THEN [matrix |-> S, dirty |-> dirty, err |-> "IndexError"]
          ELSE [matrix |-> MatMul(create_translation_matrix_4d(pos[1], pos[2], pos[3], pos[4]), S),
                dirty |-> FALSE, err |-> "none"]

\* get_transform_matrix on the fields s: recompute if dirty, else the cache
GetTransformMatrix(s, keys) ==
    IF s.transform_dirty \/ s.transform_matrix = <<>>
        THEN UpdateTransformMatrix(s.position, s.rotation, keys, s.scale, s.transform_dirty)
        ELSE [matrix |-> s.transform_matrix, dirty |-> s.transform_dirty, err |-> "none"]

\* get_transformed_vertices on the fields s: what it returns (<<>> if it raises)
ShapeWorld(s, keys) ==
    LET g == GetTransformMatrix(s, keys)
    IN IF g.err = "none"
          THEN [i \in 1..Len(ShapeVertices) |-> MatVec(g.matrix, ShapeVertices[i])]
          ELSE <<>>

ShapeFrame == UNCHANGED <<cls, rotationKeys, transform, lastPos, rotAcc,
                          everRotated, everScaled, cameraVars, projVars, rasterVars,
                          loopVars>>

ShapeSetPosition(p) ==
    /\ cls = "Shape4D" /\ steps < MaxSteps
    /\ position' = p
    /\ transform_dirty' = TRUE
    /\ ret' = <<>> /\ err' = "none"
    /\ UNCHANGED <<rotation, scale, transform_matrix>>
    /\ ShapeFrame /\ Record("set_position", p)

\* set_position(x, y, z, w) with optional coordinates: new_pos[i] = ... on a
\* copy raises IndexError when the stored position is too short
ShapeSetPositionXYZW(c) ==
    /\ cls = "Shape4D" /\ steps < MaxSteps
    /\ IF \E i \in 1..4 : c[i] # <<>> /\ i > Len(position)
          THEN /\ err' = "IndexError"
               /\ UNCHANGED <<position, transform_dirty>>
          ELSE /\ err' = "none"
               /\ position' = [i \in 1..Len(position) |->
                     IF i <= 4 /\ c[i] # <<>> THEN c[i][1] ELSE position[i]]
               /\ transform_dirty' = TRUE
    /\ ret' = <<>>
    /\ UNCHANGED <<rotation, scale, transform_matrix>>
    /\ ShapeFrame /\ Record("set_position_xyzw", c)

\* translate: "self.position += array of 4" cannot broadcast unless the
\* stored position has length 4
ShapeTranslate(d) ==
    /\ cls = "Shape4D" /\ steps < MaxSteps
    /\ IF Len(position) # 4
          THEN /\ err' = "ValueError"
               /\ UNCHANGED <<position, transform_dirty>>
          ELSE /\ err' = "none"
               /\ position' = VecAdd(position, d)
               /\ transform_dirty' = TRUE
    /\ ret' = <<>>
    /\ UNCHANGED <<rotation, scale, transform_matrix>>
    /\ ShapeFrame /\ Record("translate", d)

ShapeRotate(args) ==
    /\ cls = "Shape4D" /\ steps < MaxSteps
    /\ rotation' = [p \in DOMAIN rotation |->
          IF p \in DOMAIN args THEN (rotation[p] + args[p]) % TwoPi ELSE rotation[p]]
    /\ transform_dirty' = (transform_dirty \/ (DOMAIN args \cap DOMAIN rotation # {}))
    /\ ret' = <<>> /\ err' = "none"
    /\ UNCHANGED <<position, scale, transform_matrix>>
    /\ ShapeFrame /\ Record("rotate", args)

ShapeSetRotation(args) ==
    /\ cls = "Shape4D" /\ steps < MaxSteps
    /\ rotation' = [p \in DOMAIN rotation |->
          IF p \in DOMAIN args THEN args[p] % TwoPi ELSE rotation[p]]
    /\ transform_dirty' = (transform_dirty \/ (DOMAIN args \cap DOMAIN rotation # {}))
    /\ ret' = <<>> /\ err' = "none"
    /\ UNCHANGED <<position, scale, transform_matrix>>
    /\ ShapeFrame /\ Record("set_rotation", args)

\* set_scale without the assignment to _transform_dirty
ShapeSetScale_KeepsClean(s) ==
    /\ cls = "Shape4D" /\ steps < MaxSteps
    /\ scale' = s
    /\ ret' = <<>> /\ err' = "none"
    /\ UNCHANGED <<position, rotation, transform_matrix, transform_dirty>>
    /\ ShapeFrame /\ Record("set_scale", s)

ShapeSetScale(s) ==
    /\ cls = "Shape4D" /\ steps < MaxSteps
    /\ scale' = s
    /\ transform_dirty' = TRUE
    /\ ret' = <<>> /\ err' = "none"
    /\ UNCHANGED <<position, rotation, transform_matrix>>
    /\ ShapeFrame /\ Record("set_scale", s)

ShapeGetTransformMatrix ==
    /\ cls = "Shape4D" /\ steps < MaxSteps
    /\ LET g == GetTransformMatrix(Snap, rotationKeys)
       IN /\ transform_matrix' = g.matrix
          /\ transform_dirty' = g.dirty
          /\ err' = g.err
          /\ ret' = IF g.err = "none" THEN g.matrix ELSE <<>>
    /\ UNCHANGED <<position, rotation, scale>>
    /\ ShapeFrame /\ Record("get_transform_matrix", <<>>)

ShapeGetTransformedVertices ==
    /\ cls = "Shape4D" /\ steps < MaxSteps
    /\ LET g == GetTransformMatrix(Snap, rotationKeys)
       IN /\ transform_matrix' = g.matrix
          /\ transform_dirty' = g.dirty
          /\ err' = g.err
    /\ ret' = ShapeWorld(Snap, rotationKeys)
    /\ UNCHANGED <<position, rotation, scale>>
    /\ ShapeFrame /\ Record("get_transformed_vertices", <<>>)

(***************************************************************************)
(* Hypercube (objects/hypercube.py)                                        *)
(***************************************************************************)
HypercubeSize == 2

\* _generate_vertices: w, z, y, x loops from the outside in, so vertex
\* number i (from 0) has x, y, z, w given by bits 0, 1, 2, 3 of i
HypercubeVertices ==
    [n \in 1..16 |-> [c \in 1..4 |->
        (HypercubeSize \div 2) * (IF ((n - 1) \div (2 ^ (c - 1))) % 2 = 1 THEN 1 ELSE -1)]]

\* get_transformed_vertices:
\*   np.dot(self._vertices, self.transform[:4, :4].T) + self.transform[:4, 3]
HypercubeWorld(T) ==
    [n \in 1..16 |-> VecAdd(MatVec(T, HypercubeVertices[n]), Column(T, 4))]

\* render_hypercube of core/renderer.py: the endpoint it passes to draw_line_4d
\* for vertex index a of an edge, transform @ hypercube.vertices[a]
CoreRenderHypercubeEndpoint(T, a) == MatVec(T, HypercubeVertices[a + 1])

CubeFrame == UNCHANGED <<cls, position, rotation, rotationKeys, scale,
                         transform_matrix, transform_dirty, cameraVars, projVars, rasterVars,
                         loopVars>>

HypercubeSetPosition(p) ==
    /\ cls = "Hypercube" /\ steps < MaxSteps
    /\ IF Len(p) # 4
          THEN /\ err' = "ValueError"
               /\ UNCHANGED <<transform, lastPos>>
          ELSE /\ err' = "none"
               /\ transform' = WithLastColumn(transform, p)
               /\ lastPos' = p
    /\ ret' = <<>>
    /\ UNCHANGED <<rotAcc, everRotated, everScaled>>
    /\ CubeFrame /\ Record("set_position", p)

HypercubeRotate(args) ==
    /\ cls = "Hypercube" /\ steps < MaxSteps
    /\ LET rot_matrix == create_rotation_matrix_4d(Full(args))
       IN /\ transform' = MatMul(rot_matrix, transform)
          /\ rotAcc' = MatMul(rot_matrix, rotAcc)
    /\ everRotated' = TRUE
    /\ ret' = <<>> /\ err' = "none"
    /\ UNCHANGED <<lastPos, everScaled>>
    /\ CubeFrame /\ Record("rotate", args)

HypercubeScale(factor) ==
    /\ cls = "Hypercube" /\ steps < MaxSteps
    /\ transform' = MatMul(create_scale_matrix_4d(factor, factor, factor, 1), transform)
    /\ everScaled' = TRUE
    /\ ret' = <<>> /\ err' = "none"
    /\ UNCHANGED <<lastPos, rotAcc, everRotated>>
    /\ CubeFrame /\ Record("set_scale", factor)

HypercubeGetTransformedVertices ==
    /\ cls = "Hypercube" /\ steps < MaxSteps
    /\ ret' = HypercubeWorld(transform)
    /\ err' = "none"
    /\ UNCHANGED <<transform, lastPos, rotAcc, everRotated, everScaled>>
    /\ CubeFrame /\ Record("get_transformed_vertices", <<>>)

(***************************************************************************)
(* Simplex4D (objects/simplex_4d.py) and SixteenCell                       *)
(* (objects/sixteen_cell.py)                                               *)
(*                                                                         *)
(* A simplex coordinate is a + b/sqrt(5) with integers a and b, so a       *)
(* simplex vertex is a pair <<a, b>> of integer vectors; integer matrices  *)
(* act on the two parts separately and a position adds to the a part.      *)
(***************************************************************************)
SimplexSize == 1

SimplexBaseVertices ==
    [n \in 1..5 |->
        << VecScale(SimplexSize, << <<1, 1, 1, 0>>, <<1, -1, -1, 0>>, <<-1, 1, -1, 0>>,
                                    <<-1, -1, 1, 0>>, <<0, 0, 0, 0>> >>[n]),
           VecScale(SimplexSize, << <<0, 0, 0, -1>>, <<0, 0, 0, -1>>, <<0, 0, 0, -1>>,
                                    <<0, 0, 0, -1>>, <<0, 0, 0, 4>> >>[n]) >>]

SixteenCellSize == 2

SixteenCellBaseVertices ==
    [n \in 1..8 |-> [c \in 1..4 |->
        IF c = (n + 1) \div 2
            THEN (SixteenCellSize \div 2) * (IF n % 2 = 1 THEN 1 ELSE -1)
            ELSE 0]]

SimplexRotateOrder == <<"xy", "xz", "xw", "yz", "yw", "zw">>

SixteenCellRotateOrder == <<"xy", "xz", "yz", "xw", "yw", "zw">>

\* Simplex4D.get_transformed_vertices: the stored position always has length 4
SimplexWorld(T, pos) ==
    [n \in 1..5 |-> << VecAdd(MatVec(T, SimplexBaseVertices[n][1]), pos),
                       MatVec(T, SimplexBaseVertices[n][2]) >>]

\* SixteenCell.get_transformed_vertices: "transformed += self.position" adds
\* a position of length 4 row by row, broadcasts one of length 1 to every
\* coordinate and raises ValueError for any other length (<<>> here)
SixteenCellWorld(T, pos) ==
    IF Len(pos) = 4
        THEN [n \in 1..8 |-> VecAdd(MatVec(T, SixteenCellBaseVertices[n]), pos)]
    ELSE IF Len(pos) = 1
        THEN [n \in 1..8 |->
                VecAdd(MatVec(T, SixteenCellBaseVertices[n]), <<pos[1], pos[1], pos[1], pos[1]>>)]
    ELSE <<>>

CellFrame == UNCHANGED <<cls, rotation, rotationKeys, scale, transform_matrix,
                         transform_dirty, lastPos, rotAcc, everRotated, everScaled,
                         cameraVars, projVars, rasterVars, loopVars>>

\* create_vector_4d(*position): missing coordinates default to 0.0, a fifth
\* positional argument is a TypeError
SimplexSetPosition(p) ==
    /\ cls = "Simplex4D" /\ steps < MaxSteps
    /\ IF Len(p) > 4
          THEN /\ err' = "TypeError"
               /\ UNCHANGED position
          ELSE /\ err' = "none"
               /\ position' = [i \in 1..4 |-> IF i <= Len(p) THEN p[i] ELSE 0]
    /\ ret' = <<>>
    /\ UNCHANGED transform
    /\ CellFrame /\ Record("set_position", p)

SimplexRotate(args) ==
    /\ cls = "Simplex4D" /\ steps < MaxSteps
    /\ transform' = RotationLoop(SimplexRotateOrder, Full(args), transform, 1)
    /\ ret' = <<>> /\ err' = "none"
    /\ UNCHANGED position
    /\ CellFrame /\ Record("rotate", args)

SimplexGetTransformedVertices ==
    /\ cls = "Simplex4D" /\ steps < MaxSteps
    /\ ret' = SimplexWorld(transform, position)
    /\ err' = "none"
    /\ UNCHANGED <<position, transform>>
    /\ CellFrame /\ Record("get_transformed_vertices", <<>>)

SixteenCellSetPosition(p) ==
    /\ cls = "SixteenCell" /\ steps < MaxSteps
    /\ position' = p
    /\ ret' = <<>> /\ err' = "none"
    /\ UNCHANGED transform
    /\ CellFrame /\ Record("set_position", p)

SixteenCellRotate(args) ==
    /\ cls = "SixteenCell" /\ steps < MaxSteps
    /\ transform' = RotationLoop(SixteenCellRotateOrder, Full(args), transform, 1)
    /\ ret' = <<>> /\ err' = "none"
    /\ UNCHANGED position
    /\ CellFrame /\ Record("rotate", args)

SixteenCellGetTransformedVertices ==
    /\ cls = "SixteenCell" /\ steps < MaxSteps
    /\ ret' = SixteenCellWorld(transform, position)
    /\ err' = IF SixteenCellWorld(transform, position) = <<>> THEN "ValueError" ELSE "none"
    /\ UNCHANGED <<position, transform>>
    /\ CellFrame /\ Record("get_transformed_vertices", <<>>)

(***************************************************************************)
(* The polytope specification: one object of one class, any calls          *)
(***************************************************************************)
ZeroRotation == [p \in PlaneSet |-> 0]

\* rotation mappings a Shape4D is constructed with
ShapeInitRotations == {ZeroRotation, [ZeroRotation EXCEPT !["xy"] = 1, !["zw"] = -1]}

\* key orders of the rotation mapping a Shape4D is constructed with: the
\* default_factory's, and a mapping supplied with its keys in reverse
KeyOrders == {PlaneOrder, <<"zw", "yw", "yz", "xw", "xz", "xy">>}

InitHistory ==
    /\ ret = <<>> /\ err = "none"
    /\ lastOp = NoOp
    /\ pre = <<>> /\ undone = <<>>
    /\ rotAcc = Identity /\ everRotated = FALSE /\ everScaled = FALSE
    /\ steps = 0

InitShape ==
    /\ cls = "Shape4D"
    /\ position = Zero4
    /\ rotation \in ShapeInitRotations
    /\ rotationKeys \in KeyOrders
    /\ scale = 1
    /\ transform_matrix = <<>>
    /\ transform_dirty = TRUE
    /\ transform = <<>>
    /\ lastPos = <<>>

\* positions handed to the Hypercube constructor
CtorPositions == {<<1, 0, 0, 2>>}

\* Hypercube(size) or Hypercube(size, position)
InitHypercube ==
    /\ cls = "Hypercube"
    /\ position = <<>> /\ rotation = <<>> /\ rotationKeys = <<>> /\ scale = 1
    /\ transform_matrix = <<>> /\ transform_dirty = TRUE
    /\ \/ transform = Identity /\ lastPos = <<>>
       \/ \E p \in CtorPositions :
             transform = WithLastColumn(Identity, p) /\ lastPos = p

InitCell ==
    /\ cls \in {"Simplex4D", "SixteenCell"}
    /\ position = Zero4
    /\ transform = Identity
    /\ rotation = <<>> /\ rotationKeys = <<>> /\ scale = 1
    /\ transform_matrix = <<>> /\ transform_dirty = TRUE
    /\ lastPos = <<>>

IdlePolytope ==
    /\ cls = "none"
    /\ position = <<>> /\ rotation = <<>> /\ rotationKeys = <<>> /\ scale = 1
    /\ transform_matrix = <<>> /\ transform_dirty = TRUE /\ transform = <<>>
    /\ lastPos = <<>>

IdleCamera ==
    /\ owner = "none"
    /\ camera_position = <<>> /\ camera_target = <<>> /\ camera_up = <<>>
    /\ distance = <<>> /\ view_matrix = <<>>

IdleProjection == points_4d = <<>> /\ proj_distance = 0 /\ projected = <<>>

\* no run loop, no mouse state and no simulation
IdleLoop == run = <<>> /\ mouse = <<>> /\ sim = <<>>

IdleRaster ==
    /\ viewport = <<>> /\ screen_point = <<>> /\ zbuffer = <<>>
    /\ draws = <<>> /\ segment = <<>> /\ objects = <<>> /\ frames = 0
    /\ rasterized = <<>>

Init ==
    /\ InitHistory
    /\ InitShape \/ InitHypercube \/ InitCell
    /\ IdleCamera /\ IdleProjection /\ IdleRaster /\ IdleLoop

Next ==
    \/ \E p \in PositionInputs : ShapeSetPosition(p)
    \/ \E c \in XYZWInputs : ShapeSetPositionXYZW(c)
    \/ \E d \in TranslateInputs : ShapeTranslate(d)
    \/ \E a \in RotateInputs : ShapeRotate(a)
    \/ \E a \in SetRotationInputs : ShapeSetRotation(a)
    \/ \E s \in ScaleInputs : ShapeSetScale(s)
    \/ ShapeGetTransformMatrix
    \/ ShapeGetTransformedVertices
    \/ \E p \in PositionInputs : HypercubeSetPosition(p)
    \/ \E a \in RotateInputs : HypercubeRotate(a)
    \/ \E s \in ScaleInputs : HypercubeScale(s)
    \/ HypercubeGetTransformedVertices
    \/ \E p \in PositionInputs : SimplexSetPosition(p)
    \/ \E a \in RotateInputs : SimplexRotate(a)
    \/ SimplexGetTransformedVertices
    \/ \E p \in PositionInputs : SixteenCellSetPosition(p)
    \/ \E a \in RotateInputs : SixteenCellRotate(a)
    \/ SixteenCellGetTransformedVertices

Spec == Init /\ [][Next]_vars

(***************************************************************************)
(* Look-at matrix (core/math_4d.py)                                        *)
(*                                                                         *)
(* A vector of the look-at basis is a pair <<v, n>> standing for           *)
(* v / sqrt(n), v an integer vector and n > 0, so that normalising needs   *)
(* no square root; a view matrix is four such rows.                        *)
(***************************************************************************)
Det3(r1, r2, r3) ==
    r1[1] * (r2[2] * r3[3] - r2[3] * r3[2])
        - r1[2] * (r2[1] * r3[3] - r2[3] * r3[1])
        + r1[3] * (r2[1] * r3[2] - r2[2] * r3[1])

Drop(v, k) == CASE k = 1 -> <<v[2], v[3], v[4]>>
                [] k = 2 -> <<v[1], v[3], v[4]>>
                [] k = 3 -> <<v[1], v[2], v[4]>>
                [] k = 4 -> <<v[1], v[2], v[3]>>

\* cross_product_4d on integer vectors: the four signed 3x3 minors
Cross4(a, b, c) ==
    << Det3(Drop(a, 1), Drop(b, 1), Drop(c, 1)),
       0 - Det3(Drop(a, 2), Drop(b, 2), Drop(c, 2)),
       Det3(Drop(a, 3), Drop(b, 3), Drop(c, 3)),
       0 - Det3(Drop(a, 4), Drop(b, 4), Drop(c, 4)) >>

\* cross_product_4d on scaled vectors: the scale factors multiply (the zero
\* vector is written <<Zero4, 1>>)
cross_product_4d(a, b, c) ==
    LET v == Cross4(a[1], b[1], c[1])
    IN IF v = Zero4 THEN <<v, 1>> ELSE <<v, a[2] * b[2] * c[2]>>

NormSq(v) == v[1] * v[1] + v[2] * v[2] + v[3] * v[3] + v[4] * v[4]

RECURSIVE GCD(_, _)
GCD(a, b) == IF b = 0 THEN a ELSE GCD(b, a % b)

Abs(n) == IF n < 0 THEN 0 - n ELSE n

\* the integer direction of v: v divided by the gcd of its coordinates
Direction(v) ==
    LET g == GCD(GCD(Abs(v[1]), Abs(v[2])), GCD(Abs(v[3]), Abs(v[4])))
    IN <<v[1] \div g, v[2] \div g, v[3] \div g, v[4] \div g>>

\* normalize_vector: a vector of norm 0 is returned as it is, any other is
\* divided by its norm, which leaves the unit vector of its direction
normalize_vector(a) ==
    IF NormSq(a[1]) = 0 THEN a ELSE <<Direction(a[1]), NormSq(Direction(a[1]))>>

Exact(v) == <<v, 1>>

VecSub(u, v) == <<u[1] - v[1], u[2] - v[2], u[3] - v[3], u[4] - v[4]>>

\* one row of np.dot(rotation, translation)
RowTimes(a, T) ==
    << << a[1][1] * T[1][1] + a[1][2] * T[2][1] + a[1][3] * T[3][1] + a[1][4] * T[4][1],
          a[1][1] * T[1][2] + a[1][2] * T[2][2] + a[1][3] * T[3][2] + a[1][4] * T[4][2],
          a[1][1] * T[1][3] + a[1][2] * T[2][3] + a[1][3] * T[3][3] + a[1][4] * T[4][3],
          a[1][1] * T[1][4] + a[1][2] * T[2][4] + a[1][3] * T[3][4] + a[1][4] * T[4][4] >>,
       a[2] >>

\* create_look_at_matrix: the matrix returned and the exception raised
create_look_at_matrix(eye, target, up) ==
    LET forward == normalize_vector(Exact(VecSub(eye, target)))
        right == normalize_vector(cross_product_4d(Exact(up), forward, Exact(Zero4)))
        up2 == normalize_vector(cross_product_4d(forward, right, Exact(Zero4)))
        ana == cross_product_4d(right, up2, forward)
        translation == WithLastColumn(Identity, VecSub(Zero4, eye))
    IN [matrix |-> <<RowTimes(right, translation), RowTimes(up2, translation),
                     RowTimes(forward, translation), RowTimes(ana, translation)>>,
        err |-> "none"]

(***************************************************************************)
(* Camera (renderers/pygame/core/camera.py) and the camera fields of the   *)
(* standalone PygameRenderer (renderers/pygame/renderer.py)                *)
(*                                                                         *)
(* Lengths are counted in units of move_speed (0.1).  The projection       *)
(* distance is a fraction in lowest terms.                                 *)
(***************************************************************************)
MaxKeys == 3

MoveSpeed == 1

Frac(n, d) == LET g == GCD(Abs(n), d) IN IF g = 0 THEN <<0, 1>> ELSE <<n \div g, d \div g>>

FracLess(a, b) == a[1] * b[2] < b[1] * a[2]

\* the clamp of "zoom in": 0.1
MinDistance == Frac(1, 10)

\* max(0.1, x): x only when it is greater than 0.1
Max(a, x) == IF FracLess(a, x) THEN x ELSE a

\* distance *= 1.1
ZoomOut(d) == Frac(d[1] * 11, d[2] * 10)

\* distance = max(0.1, distance / 1.1)
ZoomIn(d) == Max(MinDistance, Frac(d[1] * 10, d[2] * 11))

MoveKeys == {"K_w", "K_s", "K_a", "K_d", "K_q", "K_e", "K_z", "K_x"}

ZoomOutKeys == {"K_MINUS", "K_KP_MINUS"}

ZoomInKeys == {"K_EQUALS", "K_PLUS", "K_KP_PLUS"}

\* the keys pressed: every movement key, three zoom keys and one other key
KeyInputs == MoveKeys \cup {"K_MINUS", "K_EQUALS", "K_KP_PLUS", "K_SPACE"}

\* the if/elif chain over the movement keys
Moved(pos, key) ==
    CASE key = "K_w" -> [pos EXCEPT ![3] = @ + MoveSpeed]
      [] key = "K_s" -> [pos EXCEPT ![3] = @ - MoveSpeed]
      [] key = "K_a" -> [pos EXCEPT ![1] = @ - MoveSpeed]
      [] key = "K_d" -> [pos EXCEPT ![1] = @ + MoveSpeed]
      [] key = "K_q" -> [pos EXCEPT ![2] = @ + MoveSpeed]
      [] key = "K_e" -> [pos EXCEPT ![2] = @ - MoveSpeed]
      [] key = "K_z" -> [pos EXCEPT ![4] = @ + MoveSpeed]
      [] key = "K_x" -> [pos EXCEPT ![4] = @ - MoveSpeed]
      [] OTHER -> pos

\* the zoom branches of the same chain
Zoomed(d, key) ==
    IF key \in ZoomOutKeys THEN ZoomOut(d)
    ELSE IF key \in ZoomInKeys THEN ZoomIn(d)
    ELSE d

CameraFrame == UNCHANGED <<cls, position, rotation, rotationKeys, scale, transform_matrix,
                           transform_dirty, transform, ret, pre, undone, lastPos, rotAcc,
                           everRotated, everScaled, owner, camera_target, camera_up, projVars,
                           rasterVars, loopVars>>

\* Camera.handle_key_press: move or zoom, then _update_view_matrix
CameraHandleKeyPress(key) ==
    /\ owner = "Camera" /\ steps < MaxKeys
    /\ camera_position' = Moved(camera_position, key)
    /\ distance' = Zoomed(distance, key)
    /\ LET m == create_look_at_matrix(camera_position', camera_target, camera_up)
       IN view_matrix' = m.matrix /\ err' = m.err
    /\ lastOp' = [kind |-> "key", args |-> key]
    /\ steps' = steps + 1
    /\ CameraFrame

\* PygameRenderer.handle_events on one KEYDOWN event other than Escape
RendererHandleKeyDown(key) ==
    /\ owner = "PygameRenderer" /\ steps < MaxKeys
    /\ camera_position' = Moved(camera_position, key)
    /\ distance' = Zoomed(distance, key)
    /\ LET m == create_look_at_matrix(camera_position', camera_target, camera_up)
       IN view_matrix' = m.matrix /\ err' = m.err
    /\ lastOp' = [kind |-> "key", args |-> key]
    /\ steps' = steps + 1
    /\ CameraFrame

\* distances a camera is constructed with: the default 5.0, 0.1 and 0.05
DistanceInputs == {Frac(5, 1), Frac(1, 10), Frac(1, 20)}

\* positions passed to Camera(position=...), in units of move_speed
CameraPositionInputs == {Zero4, <<0, 1, 0, 0>>}

\* create_vector_4d(0, 0, -distance * 2, 0), in units of move_speed
DefaultCameraPosition(d) == <<0, 0, 0 - ((20 * d[1]) \div d[2]), 0>>

\* Camera(distance=d) or Camera(position=p, distance=d); a PygameRenderer
\* always starts from the default position
InitCamera ==
    /\ owner \in {"Camera", "PygameRenderer"}
    /\ distance \in DistanceInputs
    /\ \/ camera_position = DefaultCameraPosition(distance)
       \/ owner = "Camera" /\ camera_position \in CameraPositionInputs
    /\ camera_target = Zero4
    /\ camera_up = <<0, 1, 0, 0>>
    /\ LET m == create_look_at_matrix(camera_position, camera_target, camera_up)
       IN view_matrix = m.matrix /\ err = m.err

InitCameraSpec ==
    /\ ret = <<>>
    /\ lastOp = NoOp
    /\ pre = <<>> /\ undone = <<>>
    /\ rotAcc = Identity /\ everRotated = FALSE /\ everScaled = FALSE
    /\ steps = 0
    /\ IdlePolytope /\ InitCamera /\ IdleProjection /\ IdleRaster /\ IdleLoop

NextCamera ==
    \/ \E key \in KeyInputs : CameraHandleKeyPress(key)
    \/ \E key \in KeyInputs : RendererHandleKeyDown(key)

SpecCamera == InitCameraSpec /\ [][NextCamera]_vars

(***************************************************************************)
(* The two perspective projections (core/math_4d.py, core/math_utils.py)   *)
(*                                                                         *)
(* Coordinates and distances are counted in units of half the epsilon      *)
(* 1e-6 of math_4d, so that denominators below the epsilon exist.  A       *)
(* result records the divisor actually used, whether the coordinates are   *)
(* finite, and the finite coordinates as fractions.                        *)
(***************************************************************************)
Eps == 2

MaxCoord == 6

\* a fraction in lowest terms with a positive denominator
Ratio(n, d) == IF d < 0 THEN Frac(0 - n, 0 - d) ELSE Frac(n, d)

\* math_4d.perspective_projection_4d_to_3d on one point
Math4dProjection(p, dist) ==
    LET denominator == IF Abs(dist - p[4]) < Eps THEN Eps ELSE dist - p[4]
    IN [fn |-> "math_4d", err |-> "none", divisor |-> denominator, finite |-> TRUE,
        coords |-> <<Ratio(p[1] * dist, denominator), Ratio(p[2] * dist, denominator),
                     Ratio(p[3] * dist, denominator)>>]

\* math_utils.perspective_projection_4d_to_3d on one point: 1 / 0 on a numpy
\* array is inf (a warning, no exception), and the products are inf or nan
MathUtilsProjection(p, dist) ==
    LET denominator == dist - p[4]
    IN [fn |-> "math_utils", err |-> "none", divisor |-> denominator,
        finite |-> denominator # 0,
        coords |-> IF denominator = 0 THEN <<>>
                   ELSE <<Ratio(p[1], denominator), Ratio(p[2], denominator),
                          Ratio(p[3], denominator)>>]

ProjectionFrame == UNCHANGED <<polyVars, cameraVars, rasterVars, loopVars, points_4d,
                               proj_distance>>

\* Camera.project_4d_to_2d and the pygame renderers project with math_4d
ProjectMath4d ==
    /\ projected = <<>>
    /\ projected' = Math4dProjection(points_4d, proj_distance)
    /\ ProjectionFrame

\* MatplotlibRenderer.add_hypercube projects with math_utils
ProjectMathUtils ==
    /\ projected = <<>>
    /\ projected' = MathUtilsProjection(points_4d, proj_distance)
    /\ ProjectionFrame

PointInputs ==
    {<<c[1], c[2], c[3], w>> : c \in {<<1, 0, -2>>, <<0, 3, 1>>}, w \in (0 - 2)..MaxCoord}

InitProjectionSpec ==
    /\ ret = <<>> /\ err = "none"
    /\ lastOp = NoOp
    /\ pre = <<>> /\ undone = <<>>
    /\ rotAcc = Identity /\ everRotated = FALSE /\ everScaled = FALSE
    /\ steps = 0
    /\ IdlePolytope /\ IdleCamera /\ IdleRaster /\ IdleLoop
    /\ points_4d \in PointInputs
    /\ proj_distance \in 1..MaxCoord
    /\ projected = <<>>

NextProjection == ProjectMath4d \/ ProjectMathUtils

SpecProjection == InitProjectionSpec /\ [][NextProjection]_vars

(***************************************************************************)
(* Camera.project_4d_to_2d (core/camera.py)                                *)
(*                                                                         *)
(* Here coordinates, depths and distances are fractions <<n, d>> of the    *)
(* program's own unit, and pixel coordinates are integers.                 *)
(***************************************************************************)
PixelsPerUnit == 100

FracAdd(a, b) == Frac(a[1] * b[2] + b[1] * a[2], a[2] * b[2])

FracNeg(a) == <<0 - a[1], a[2]>>

FracSub(a, b) == FracAdd(a, FracNeg(b))

\* a * b, cancelling across before multiplying
FracMul(a, b) ==
    LET g == GCD(Abs(a[1]), b[2])
        h == GCD(Abs(b[1]), a[2])
    IN IF a[1] = 0 \/ b[1] = 0 THEN <<0, 1>>
       ELSE <<(a[1] \div g) * (b[1] \div h), (a[2] \div h) * (b[2] \div g)>>

\* a / b for b # 0
FracDiv(a, b) ==
    FracMul(a, IF b[1] < 0 THEN <<0 - b[2], 0 - b[1]>> ELSE <<b[2], b[1]>>)

FracAbs(a) == <<Abs(a[1]), a[2]>>

\* int(q): the fractional part is dropped, towards zero
Trunc(q) == IF q[1] < 0 THEN 0 - ((0 - q[1]) \div q[2]) ELSE q[1] \div q[2]

\* the epsilon 1e-6 of math_4d.perspective_projection_4d_to_3d
EpsReal == Frac(1, 1000000)

\* perspective_factor of math_4d.perspective_projection_4d_to_3d for one point
PerspectiveFactor(w, dist) ==
    LET denominator == FracSub(dist, w)
    IN FracDiv(dist, IF FracLess(FracAbs(denominator), EpsReal) THEN EpsReal
                     ELSE denominator)

\* math_4d.perspective_projection_4d_to_3d on one point of fractions
Projected3d(p, dist) ==
    LET f == PerspectiveFactor(p[4], dist)
    IN <<FracMul(p[1], f), FracMul(p[2], f), FracMul(p[3], f)>>

\* Camera.project_4d_to_2d: (x, y, depth), with the projected 3D point kept
project_4d_to_2d(p, dist, size) ==
    LET q == Projected3d(p, dist)
    IN [x |-> Trunc(FracAdd(FracMul(q[1], <<PixelsPerUnit, 1>>), <<size[1] \div 2, 1>>)),
        y |-> Trunc(FracAdd(FracMul(FracNeg(q[2]), <<PixelsPerUnit, 1>>),
                            <<size[2] \div 2, 1>>)),
        depth |-> q[3],
        projected |-> q]

\* the camera of a renderer: Camera(width, height, distance=5.0)
InitRasterCamera ==
    /\ InitCamera
    /\ owner = "Camera" /\ distance = Frac(5, 1)
    /\ camera_position = DefaultCameraPosition(distance)

InitRasterHistory ==
    /\ ret = <<>>
    /\ lastOp = NoOp
    /\ pre = <<>> /\ undone = <<>>
    /\ rotAcc = Identity /\ everRotated = FALSE /\ everScaled = FALSE
    /\ steps = 0

\* camera.project_4d_to_2d(point_4d)
CameraProject4dTo2d ==
    /\ screen_point = <<>>
    /\ screen_point' = project_4d_to_2d(points_4d, distance, viewport)
    /\ UNCHANGED <<polyVars, cameraVars, projVars, viewport, zbuffer, draws, segment,
                   objects, frames, rasterized, loopVars>>

\* window sizes: the default, one with odd width and height, and a small one
ViewportInputs == {<<800, 600>>, <<801, 601>>, <<4, 3>>}

\* points handed to project_4d_to_2d
ScreenPointInputs ==
    {<<x, y, Frac(1, 2), w>> :
        x \in {Frac(1, 1), Frac(1006, 1000), Frac(0 - 27, 1000), Frac(0 - 3, 1000)},
        y \in {Frac(0, 1), Frac(4, 1000), Frac(37, 1000)},
        w \in {Frac(0, 1), Frac(5, 2), Frac(5, 1), Frac(6, 1)}}

InitScreenSpec ==
    /\ InitRasterHistory
    /\ IdlePolytope /\ InitRasterCamera
    /\ points_4d \in ScreenPointInputs
    /\ proj_distance = 0 /\ projected = <<>>
    /\ viewport \in ViewportInputs
    /\ screen_point = <<>> /\ zbuffer = <<>>
    /\ draws = <<>> /\ segment = <<>> /\ objects = <<>> /\ frames = 0
    /\ rasterized = <<>> /\ IdleLoop

NextScreen == CameraProject4dTo2d

SpecScreen == InitScreenSpec /\ [][NextScreen]_vars

(***************************************************************************)
(* draw_line_4d (graphics/primitives/lines.py)                             *)
(*                                                                         *)
(* Screen coordinates and depths are fractions; float("inf") is the        *)
(* fraction <<1, 0>>, which FracLess places above every depth.             *)
(***************************************************************************)
ClipFuel == 8

NearPlane == Frac(1, 10)

FarPlane == Frac(100, 1)

ViewportPadding == 100

NumSamples == 5

Inf == <<1, 0>>

FracMin(a, b) == IF FracLess(b, a) THEN b ELSE a

\* round(q) of a float: to the nearest integer, to the even one half way
Round(q) ==
    LET below == q[1] \div q[2]
        rest == q[1] % q[2]
    IN IF 2 * rest < q[2] THEN below
       ELSE IF 2 * rest > q[2] THEN below + 1
       ELSE IF below % 2 = 0 THEN below ELSE below + 1

\* the bits kept of a significand in the z-buffer (numpy's float32 keeps 24;
\* the depths drawn here need 8 where float32 holds them exactly)
MantissaBits == 8

\* the z-buffer is an array of dtype float32: a depth z > 0 assigned to a cell
\* is stored as the nearest value with a significand of MantissaBits bits, to
\* the even one half way
Float32(z) ==
    IF z[2] = 0 \/ z[1] <= 0 THEN z
    ELSE LET Pow2(k) == IF k >= 0 THEN <<2 ^ k, 1>> ELSE <<1, 2 ^ (0 - k)>>
             e == CHOOSE k \in -10..10 : ~FracLess(z, Pow2(k)) /\ FracLess(z, Pow2(k + 1))
             ulps == Round(FracMul(z, Pow2(MantissaBits - 1 - e)))
         IN FracMul(<<ulps, 1>>, Pow2(e + 1 - MantissaBits))

\* the depth test without the far plane
DepthRejected_NearOnly(z1, z2) ==
    FracLess(z1, NearPlane) /\ FracLess(z2, NearPlane)

\* the two early returns on the depths of the projected endpoints
DepthRejected(z1, z2) ==
    \/ FracLess(z1, NearPlane) /\ FracLess(z2, NearPlane)
    \/ FracLess(FarPlane, z1) /\ FracLess(FarPlane, z2)

\* a + t * (b - a)
Lerp(a, b, t) == FracAdd(a, FracMul(t, FracSub(b, a)))

\* "Clip line against near plane": the endpoint nearer than the near plane is
\* moved to the crossing point
NearClip(p1, p2) ==
    IF FracLess(p1.z, NearPlane)
    THEN LET t == FracDiv(FracSub(NearPlane, p1.z), FracSub(p2.z, p1.z))
         IN <<[x |-> Lerp(p1.x, p2.x, t), y |-> Lerp(p1.y, p2.y, t), z |-> NearPlane], p2>>
    ELSE IF FracLess(p2.z, NearPlane)
    THEN LET t == FracDiv(FracSub(NearPlane, p2.z), FracSub(p1.z, p2.z))
         IN <<p1, [x |-> Lerp(p2.x, p1.x, t), y |-> Lerp(p2.y, p1.y, t), z |-> NearPlane]>>
    ELSE <<p1, p2>>

\* min_x, max_x, min_y, max_y of the padded viewport of a surface of that size
PaddedViewport(size) ==
    [min_x |-> <<0 - ViewportPadding, 1>>, max_x |-> <<size[1] + ViewportPadding, 1>>,
     min_y |-> <<0 - ViewportPadding, 1>>, max_y |-> <<size[2] + ViewportPadding, 1>>]

\* the outcode without the test "x < min_x"
compute_outcode_NoLeft(x, y, size) ==
    LET v == PaddedViewport(size)
    IN (IF FracLess(v.max_x, x) THEN 2 ELSE 0)
       + (IF FracLess(y, v.min_y) THEN 4 ELSE 0) + (IF FracLess(v.max_y, y) THEN 8 ELSE 0)

compute_outcode(x, y, size) ==
    LET v == PaddedViewport(size)
    IN (IF FracLess(x, v.min_x) THEN 1 ELSE 0) + (IF FracLess(v.max_x, x) THEN 2 ELSE 0)
       + (IF FracLess(y, v.min_y) THEN 4 ELSE 0) + (IF FracLess(v.max_y, y) THEN 8 ELSE 0)

\* bit b (1, 2, 4 or 8) of an outcode
HasBit(code, b) == (code \div b) % 2 = 1

\* a + (b - a) * (edge - c) / (d - c)
Crossing(a, b, edge, c, d) ==
    FracAdd(a, FracDiv(FracMul(FracSub(b, a), FracSub(edge, c)), FracSub(d, c)))

\* the intersection with the upper and the lower edge exchanged
Intersection_WrongEdge(x1, y1, x2, y2, outcode, size) ==
    LET v == PaddedViewport(size)
        edge == IF HasBit(outcode, 8) THEN v.min_y ELSE IF HasBit(outcode, 4) THEN v.max_y
                ELSE IF HasBit(outcode, 2) THEN v.max_x ELSE v.min_x
    IN IF HasBit(outcode, 8) \/ HasBit(outcode, 4)
       THEN IF y2 = y1 THEN <<>> ELSE <<Crossing(x1, x2, edge, y1, y2), edge>>
       ELSE IF x2 = x1 THEN <<>> ELSE <<edge, Crossing(y1, y2, edge, x1, x2)>>

\* the intersection with the edge of the first bit set in outcode, tested in
\* the order 8, 4, 2, 1; <<>> when the division is by zero
Intersection(x1, y1, x2, y2, outcode, size) ==
    LET v == PaddedViewport(size)
        edge == IF HasBit(outcode, 8) THEN v.max_y ELSE IF HasBit(outcode, 4) THEN v.min_y
                ELSE IF HasBit(outcode, 2) THEN v.max_x ELSE v.min_x
    IN IF HasBit(outcode, 8) \/ HasBit(outcode, 4)
       THEN IF y2 = y1 THEN <<>> ELSE <<Crossing(x1, x2, edge, y1, y2), edge>>
       ELSE IF x2 = x1 THEN <<>> ELSE <<edge, Crossing(y1, y2, edge, x1, x2)>>

\* the "while True" loop, k iterations done: how it ended and with which
\* endpoints; "running" when it has not ended within ClipFuel iterations
RECURSIVE CohenSutherland(_, _, _, _, _, _)
CohenSutherland(x1, y1, x2, y2, size, k) ==
    LET outcode1 == compute_outcode(x1, y1, size)
        outcode2 == compute_outcode(x2, y2, size)
        outcode == IF outcode1 # 0 THEN outcode1 ELSE outcode2
        hit == Intersection(x1, y1, x2, y2, outcode, size)
        end(status) == [status |-> status, x1 |-> x1, y1 |-> y1, x2 |-> x2, y2 |-> y2,
                        iterations |-> k]
    IN IF outcode1 = 0 /\ outcode2 = 0 THEN end("accept")
       ELSE IF \E b \in {1, 2, 4, 8} : HasBit(outcode1, b) /\ HasBit(outcode2, b)
            THEN end("reject")
       ELSE IF k >= ClipFuel THEN end("running")
       ELSE IF hit = <<>> THEN end("ZeroDivisionError")
       ELSE IF outcode = outcode1
            THEN CohenSutherland(hit[1], hit[2], x2, y2, size, k + 1)
            ELSE CohenSutherland(x1, y1, hit[1], hit[2], size, k + 1)

\* sample i of the clipped segment c: the cell it falls in
SampleCell(c, i) ==
    LET t == Frac(i, NumSamples - 1)
        u == FracSub(<<1, 1>>, t)
    IN <<Trunc(FracAdd(FracMul(c.x1, u), FracMul(c.x2, t))),
         Trunc(FracAdd(FracMul(c.y1, u), FracMul(c.y2, t)))>>

\* a loop that assigns z to every sample's cell without comparing depths
RECURSIVE ZBufferLoop_NoDepthTest(_, _, _, _, _, _)
ZBufferLoop_NoDepthTest(zb, c, z1, z2, size, i) ==
    IF i >= NumSamples THEN zb
    ELSE LET cell == SampleCell(c, i)
         IN ZBufferLoop_NoDepthTest(IF /\ 0 <= cell[1] /\ cell[1] < size[1]
                                       /\ 0 <= cell[2] /\ cell[2] < size[2]
                                    THEN [zb EXCEPT ![cell] = Float32(FracMin(z1, z2))]
                                    ELSE zb,
                                    c, z1, z2, size, i + 1)

\* the loop over the samples i, i + 1, ... on the z-buffer zb; the depth
\* tested and written at every sample is z = min(z1, z2)
RECURSIVE ZBufferLoop(_, _, _, _, _, _)
ZBufferLoop(zb, c, z1, z2, size, i) ==
    IF i >= NumSamples THEN zb
    ELSE LET cell == SampleCell(c, i)
         IN ZBufferLoop(IF /\ 0 <= cell[1] /\ cell[1] < size[1]
                           /\ 0 <= cell[2] /\ cell[2] < size[2]
                           /\ FracLess(FracMin(z1, z2), zb[cell])
                        THEN [zb EXCEPT ![cell] = Float32(FracMin(z1, z2))] ELSE zb,
                        c, z1, z2, size, i + 1)

\* the assignments zbuffer[x, y] = z that the loop makes from sample i on: the
\* cell, the value it held and the value it holds afterwards
RECURSIVE ZBufferWrites(_, _, _, _, _, _)
ZBufferWrites(zb, c, z1, z2, size, i) ==
    IF i >= NumSamples THEN <<>>
    ELSE LET cell == SampleCell(c, i)
         IN IF /\ 0 <= cell[1] /\ cell[1] < size[1]
               /\ 0 <= cell[2] /\ cell[2] < size[2]
               /\ FracLess(FracMin(z1, z2), zb[cell])
            THEN <<[cell |-> cell, old |-> zb[cell],
                    new |-> Float32(FracMin(z1, z2))]>>
                 \o ZBufferWrites([zb EXCEPT ![cell] = Float32(FracMin(z1, z2))],
                                  c, z1, z2, size, i + 1)
            ELSE ZBufferWrites(zb, c, z1, z2, size, i + 1)

\* the endpoints handed to pygame.draw.aaline / pygame.draw.line
LineCommand(c) ==
    [start |-> <<Round(c.x1), Round(c.y1)>>, end |-> <<Round(c.x2), Round(c.y2)>>]

\* what a draw_line_4d call did: where it returned (stage), the projected
\* endpoints, the endpoints after the near-plane clip, how the clipping loop
\* ended, the z-buffer before and after, and the line drawn (<<>>: none)
LineOutcome(stage, p1, p2, n, clip, zb, zb2, cmd) ==
    [stage |-> stage, p1 |-> p1, p2 |-> p2, z1 |-> n[1].z, z2 |-> n[2].z,
     near |-> n, clip |-> clip, zbefore |-> zb, zbuffer |-> zb2, command |-> cmd]

\* a variant that issues the line command only if a sample passed the depth test
AfterClip_DepthDecides(p1, p2, n, c, zb, size) ==
    IF c.status # "accept" THEN LineOutcome(c.status, p1, p2, n, c, zb, zb, <<>>)
    ELSE IF zb # <<>> /\ ZBufferLoop(zb, c, n[1].z, n[2].z, size, 0) = zb
         THEN LineOutcome("drawn", p1, p2, n, c, zb, zb, <<>>)
    ELSE LineOutcome("drawn", p1, p2, n, c, zb,
                     IF zb = <<>> THEN zb ELSE ZBufferLoop(zb, c, n[1].z, n[2].z, size, 0),
                     LineCommand(c))

\* draw_line_4d after the clipping loop has ended as c: z-buffering and drawing
AfterClip(p1, p2, n, c, zb, size) ==
    IF c.status # "accept" THEN LineOutcome(c.status, p1, p2, n, c, zb, zb, <<>>)
    ELSE LineOutcome("drawn", p1, p2, n, c, zb,
                     IF zb = <<>> THEN zb ELSE ZBufferLoop(zb, c, n[1].z, n[2].z, size, 0),
                     LineCommand(c))

\* draw_line_4d after the near-plane clip has left the endpoints n
AfterNearClip(p1, p2, n, zb, size) ==
    AfterClip(p1, p2, n, CohenSutherland(n[1].x, n[1].y, n[2].x, n[2].y, size, 0), zb, size)

\* draw_line_4d after the projection of the endpoints to p1, p2
AfterProjection(p1, p2, zb, size) ==
    IF DepthRejected(p1.z, p2.z)
    THEN LineOutcome("depth_rejected", p1, p2, <<p1, p2>>, <<>>, zb, zb, <<>>)
    ELSE AfterNearClip(p1, p2, NearClip(p1, p2), zb, size)

\* draw_line_4d up to the draw call
draw_line_4d(start, end, zb, size, dist) ==
    LET ScreenPoint(s) == [x |-> <<s.x, 1>>, y |-> <<s.y, 1>>, z |-> s.depth]
    IN AfterProjection(ScreenPoint(project_4d_to_2d(start, dist, size)),
                       ScreenPoint(project_4d_to_2d(end, dist, size)), zb, size)

\* renderer.draw_line_4d(start, end, color): the call of draw_line_4d with the
\* renderer's surface, camera and z-buffer.  pygame.draw.aaline draws the line
\* (aa), or raises and pygame.draw.line draws it.
DrawLine4d(start, end, aa) ==
    /\ viewport # <<>> /\ segment = <<>>
    /\ LET r == draw_line_4d(start, end, zbuffer, viewport, distance)
       IN /\ segment' = r
          /\ zbuffer' = r.zbuffer
          /\ draws' = IF r.command = <<>> THEN draws
                      ELSE Append(draws, [fn |-> IF aa THEN "aaline" ELSE "line",
                                          start |-> r.command.start,
                                          end |-> r.command.end])
          /\ err' = IF r.stage \in {"ZeroDivisionError", "running"} THEN r.stage ELSE "none"
    /\ lastOp' = [kind |-> "draw_line_4d", args |-> <<start, end>>]
    /\ steps' = steps + 1
    /\ UNCHANGED <<cls, position, rotation, rotationKeys, scale, transform_matrix,
                   transform_dirty, transform, ret, pre, undone, lastPos, rotAcc,
                   everRotated, everScaled, cameraVars, projVars, viewport,
                   screen_point, objects, frames, rasterized, loopVars>>

\* endpoints for a surface of 4 x 3 pixels: LinePoint(x, y, z) is the 4D point
\* (with w = 0) that the camera projects to pixel (x, y), depth z; the depth
\* 1/10 is one that float32 does not hold exactly
LinePointInputs ==
    LET LinePoint(x, y, z) ==
            <<Frac(x - 4 \div 2, PixelsPerUnit), Frac(3 \div 2 - y, PixelsPerUnit), z, <<0, 1>>>>
    IN
    {LinePoint(0, 0, Frac(1, 2)), LinePoint(3, 2, Frac(2, 1)),
     LinePoint(1, 1, Frac(1, 20)), LinePoint(3, 2, Frac(1, 20)),
     LinePoint(2, 1, Frac(150, 1)), LinePoint(0, 2, Frac(150, 1)),
     LinePoint(0 - 5, 1, Frac(1, 1)), LinePoint(0 - 5, 2, Frac(1, 2)),
     LinePoint(0 - 150, 1, Frac(1, 1)), LinePoint(0 - 150, 0 - 150, Frac(1, 1)),
     LinePoint(200, 1, Frac(1, 1)), LinePoint(1, 150, Frac(1, 1)),
     LinePoint(2, 0 - 150, Frac(1, 20)), LinePoint(2, 2, Frac(1, 10))}

\* np.ones((width, height)) * float("inf"), and zbuffer.fill(float("inf"))
ClearedZBuffer(size) == [c \in (0..(size[1] - 1)) \X (0..(size[2] - 1)) |-> Inf]

\* z-buffers a line is drawn on: just cleared, every cell at depth 1/4, one
\* cell written, or no z-buffer (None)
ZBufferInputs(size) ==
    {ClearedZBuffer(size), [c \in DOMAIN ClearedZBuffer(size) |-> Frac(1, 4)],
     [ClearedZBuffer(size) EXCEPT ![<<1, 1>>] = Frac(1, 1)], <<>>}

InitLineSpec ==
    /\ InitRasterHistory
    /\ IdlePolytope /\ InitRasterCamera /\ IdleProjection
    /\ viewport = <<4, 3>>
    /\ zbuffer \in ZBufferInputs(viewport)
    /\ screen_point = <<>> /\ draws = <<>> /\ segment = <<>>
    /\ objects = <<>> /\ frames = 0 /\ rasterized = <<>> /\ IdleLoop

NextLine ==
    \E start \in LinePointInputs, end \in LinePointInputs, aa \in BOOLEAN :
        DrawLine4d(start, end, aa)

SpecLine == InitLineSpec /\ [][NextLine]_vars

(***************************************************************************)
(* Scene.render and PygameRenderer.render (core/renderer.py, scene.py)     *)
(*                                                                         *)
(* A scene object is a record of its class, its size and its position.     *)
(* draws lists the calls made on the surface since it was last filled.     *)
(***************************************************************************)
MaxFrames == 3

\* edge lists in which _generate_edges flips only the bits of x, y and z
Edges_ThreeDims(class) ==
    CASE class = "Hypercube" ->
             SelectSeq([k \in 1..48 |-> <<(k - 1) \div 3,
                                          (k - 1) \div 3 + 2 ^ ((k - 1) % 3)>>],
                       LAMBDA e : (e[1] \div (e[2] - e[1])) % 2 = 0)
      [] class = "Simplex4D" ->
             <<<<0, 1>>, <<0, 2>>, <<0, 3>>, <<0, 4>>, <<1, 2>>, <<1, 3>>, <<1, 4>>,
               <<2, 3>>, <<2, 4>>, <<3, 4>>>>
      [] class = "SixteenCell" ->
             <<<<0, 2>>, <<0, 3>>, <<0, 4>>, <<0, 5>>, <<0, 6>>, <<0, 7>>,
               <<1, 2>>, <<1, 3>>, <<1, 4>>, <<1, 5>>, <<1, 6>>, <<1, 7>>,
               <<2, 4>>, <<2, 5>>, <<2, 6>>, <<2, 7>>, <<3, 4>>, <<3, 5>>, <<3, 6>>, <<3, 7>>,
               <<4, 6>>, <<4, 7>>, <<5, 6>>, <<5, 7>>>>

\* edge lists in which _generate_edges appends (i, j) without testing i < j
Edges_NoOrderGuard(class) ==
    CASE class = "Hypercube" ->
             [k \in 1..64 |->
                 <<(k - 1) \div 4,
                   IF (((k - 1) \div 4) \div 2 ^ ((k - 1) % 4)) % 2 = 0
                       THEN (k - 1) \div 4 + 2 ^ ((k - 1) % 4)
                       ELSE (k - 1) \div 4 - 2 ^ ((k - 1) % 4)>>]
      [] class = "Simplex4D" ->
             <<<<0, 1>>, <<0, 2>>, <<0, 3>>, <<0, 4>>, <<1, 2>>, <<1, 3>>, <<1, 4>>,
               <<2, 3>>, <<2, 4>>, <<3, 4>>>>
      [] class = "SixteenCell" ->
             <<<<0, 2>>, <<0, 3>>, <<0, 4>>, <<0, 5>>, <<0, 6>>, <<0, 7>>,
               <<1, 2>>, <<1, 3>>, <<1, 4>>, <<1, 5>>, <<1, 6>>, <<1, 7>>,
               <<2, 4>>, <<2, 5>>, <<2, 6>>, <<2, 7>>, <<3, 4>>, <<3, 5>>, <<3, 6>>, <<3, 7>>,
               <<4, 6>>, <<4, 7>>, <<5, 6>>, <<5, 7>>>>

\* the vertex index pairs of the edges of a polytope, in the order of its list
Edges(class) ==
    CASE class = "Hypercube" ->
             SelectSeq([k \in 1..64 |-> <<(k - 1) \div 4,
                                          (k - 1) \div 4 + 2 ^ ((k - 1) % 4)>>],
                       LAMBDA e : (e[1] \div (e[2] - e[1])) % 2 = 0)
      [] class = "Simplex4D" ->
             <<<<0, 1>>, <<0, 2>>, <<0, 3>>, <<0, 4>>, <<1, 2>>, <<1, 3>>, <<1, 4>>,
               <<2, 3>>, <<2, 4>>, <<3, 4>>>>
      [] class = "SixteenCell" ->
             <<<<0, 2>>, <<0, 3>>, <<0, 4>>, <<0, 5>>, <<0, 6>>, <<0, 7>>,
               <<1, 2>>, <<1, 3>>, <<1, 4>>, <<1, 5>>, <<1, 6>>, <<1, 7>>,
               <<2, 4>>, <<2, 5>>, <<2, 6>>, <<2, 7>>, <<3, 4>>, <<3, 5>>, <<3, 6>>, <<3, 7>>,
               <<4, 6>>, <<4, 7>>, <<5, 6>>, <<5, 7>>>>

\* self.faces: the vertex index triples of a polytope (Hypercube keeps none)
Faces(class) ==
    CASE class = "Hypercube" -> <<>>
      [] class = "Simplex4D" ->
             <<<<0, 1, 2>>, <<0, 1, 3>>, <<0, 1, 4>>, <<0, 2, 3>>, <<0, 2, 4>>,
               <<0, 3, 4>>, <<1, 2, 3>>, <<1, 2, 4>>, <<1, 3, 4>>, <<2, 3, 4>>>>
      [] class = "SixteenCell" ->
             <<<<0, 2, 4>>, <<0, 2, 5>>, <<0, 3, 4>>, <<0, 3, 5>>,
               <<1, 2, 4>>, <<1, 2, 5>>, <<1, 3, 4>>, <<1, 3, 5>>,
               <<0, 2, 6>>, <<0, 2, 7>>, <<0, 3, 6>>, <<0, 3, 7>>,
               <<1, 2, 6>>, <<1, 2, 7>>, <<1, 3, 6>>, <<1, 3, 7>>,
               <<0, 4, 6>>, <<0, 4, 7>>, <<0, 5, 6>>, <<0, 5, 7>>,
               <<1, 4, 6>>, <<1, 4, 7>>, <<1, 5, 6>>, <<1, 5, 7>>,
               <<2, 4, 6>>, <<2, 4, 7>>, <<2, 5, 6>>, <<2, 5, 7>>,
               <<3, 4, 6>>, <<3, 4, 7>>, <<3, 5, 6>>, <<3, 5, 7>>>>

\* self.cells: the vertex index tuples of a polytope (Hypercube keeps none)
Cells(class) ==
    CASE class = "Hypercube" -> <<>>
      [] class = "Simplex4D" ->
             <<<<0, 1, 2, 3>>, <<0, 1, 2, 4>>, <<0, 1, 3, 4>>, <<0, 2, 3, 4>>,
               <<1, 2, 3, 4>>>>
      [] class = "SixteenCell" ->
             <<<<0, 1, 2, 3, 4, 5>>, <<0, 1, 2, 3, 6, 7>>, <<0, 1, 4, 5, 6, 7>>,
               <<2, 3, 4, 5, 6, 7>>, <<0, 2, 4, 6, 1, 3>>, <<0, 2, 5, 7, 1, 3>>,
               <<0, 3, 4, 7, 1, 2>>, <<0, 3, 5, 6, 1, 2>>>>

\* a clear() that fills the surface and leaves the z-buffer as it is
RendererClear_KeepsDepth(zb, size) ==
    [zbuffer |-> zb, draws |-> <<[fn |-> "fill"]>>, first |-> <<>>, rasterized |-> <<>>]

\* PygameRenderer.clear: screen.fill(background) and zbuffer.fill(inf); first is
\* what the first draw_line_4d call of the frame that reached the z-buffering
\* did, rasterized the calls made
RendererClear(zb, size) ==
    [zbuffer |-> IF zb = <<>> THEN zb ELSE ClearedZBuffer(size),
     draws |-> <<[fn |-> "fill"]>>, first |-> <<>>, rasterized |-> <<>>]

\* render_hypercube from edge k on: transform @ hypercube.vertices[a], where
\* transform is the identity with its last column set to the position.  r is
\* what the draw_line_4d call of edge k did, v the frame after it.
RECURSIVE render_hypercube(_, _, _, _, _, _)
render_hypercube(hypercube, i, k, st, size, dist) ==
    IF k > Len(Edges("Hypercube")) THEN st
    ELSE LET Vertex(a) == [c \in 1..4 |->
                 FracMul(hypercube.size,
                         Frac(IF (a \div (2 ^ (c - 1))) % 2 = 1 THEN 1 ELSE 0 - 1, 2))]
             End(a) == <<FracAdd(Vertex(a)[1], FracMul(hypercube.position[1], Vertex(a)[4])),
                         FracAdd(Vertex(a)[2], FracMul(hypercube.position[2], Vertex(a)[4])),
                         FracAdd(Vertex(a)[3], FracMul(hypercube.position[3], Vertex(a)[4])),
                         FracMul(hypercube.position[4], Vertex(a)[4])>>
         IN CHOOSE out \in
                {render_hypercube(hypercube, i, k + 1, v, size, dist) :
                    v \in {[zbuffer |-> r.zbuffer,
                            draws |-> IF r.command = <<>> THEN st.draws
                                      ELSE Append(st.draws,
                                                  [fn |-> "aaline", start |-> r.command.start,
                                                   end |-> r.command.end]),
                            first |-> IF st.first = <<>> /\ r.stage = "drawn" THEN r ELSE st.first,
                            rasterized |-> Append(st.rasterized, <<i, Edges("Hypercube")[k]>>)] :
                           r \in {draw_line_4d(End(Edges("Hypercube")[k][1]),
                                               End(Edges("Hypercube")[k][2]),
                                               st.zbuffer, size, dist)}}} : TRUE

\* the loop of Scene.render from object i on: only a Hypercube has a render
\* method, which calls renderer.render_hypercube(self)
RECURSIVE SceneRenderLoop(_, _, _, _, _)
SceneRenderLoop(objs, i, st, size, dist) ==
    IF i > Len(objs) THEN st
    ELSE CHOOSE out \in
             {SceneRenderLoop(objs, i + 1, v, size, dist) :
                 v \in {IF objs[i].cls = "Hypercube"
                            THEN render_hypercube(objs[i], i, 1, st, size, dist)
                            ELSE st}} : TRUE

\* renderer.add_object(obj)
RendererAddObject(obj) ==
    /\ viewport # <<>>
    /\ \A i \in 1..Len(objects) : objects[i] # obj
    /\ objects' = Append(objects, obj)
    /\ lastOp' = [kind |-> "add_object", args |-> <<obj>>]
    /\ UNCHANGED <<cls, position, rotation, rotationKeys, scale, transform_matrix,
                   transform_dirty, transform, ret, err, pre, undone, lastPos, rotAcc,
                   everRotated, everScaled, steps, cameraVars, projVars, viewport,
                   screen_point, zbuffer, draws, segment, frames, rasterized, loopVars>>

\* renderer.render(): scene.render(renderer), which clears and then renders
\* every object that has a render method
RendererRender ==
    /\ viewport # <<>> /\ frames < MaxFrames
    /\ LET st == SceneRenderLoop(objects, 1, RendererClear(zbuffer, viewport),
                                 viewport, distance)
       IN /\ zbuffer' = st.zbuffer
          /\ draws' = st.draws
          /\ segment' = st.first
          /\ rasterized' = st.rasterized
    /\ frames' = frames + 1
    /\ lastOp' = [kind |-> "render", args |-> <<>>]
    /\ pre' = [zbuffer |-> zbuffer, draws |-> draws]
    /\ UNCHANGED <<cls, position, rotation, rotationKeys, scale, transform_matrix,
                   transform_dirty, transform, ret, err, undone, lastPos, rotAcc,
                   everRotated, everScaled, steps, cameraVars, projVars, viewport,
                   screen_point, objects, loopVars>>

\* Hypercube(size=0.02, position=[0, 0, 20, 0]), Simplex4D(), SixteenCell()
ObjectInputs ==
    {[cls |-> "Hypercube", size |-> Frac(2, 100),
      position |-> <<Frac(0, 1), Frac(0, 1), Frac(20, 1), Frac(0, 1)>>],
     [cls |-> "Simplex4D", size |-> Frac(1, 1), position |-> <<>>],
     [cls |-> "SixteenCell", size |-> Frac(1, 1), position |-> <<>>]}

\* PygameRenderer(width=4, height=3)
InitFrameSpec ==
    /\ InitRasterHistory
    /\ IdlePolytope /\ InitRasterCamera /\ IdleProjection
    /\ viewport = <<4, 3>>
    /\ zbuffer = ClearedZBuffer(viewport)
    /\ screen_point = <<>> /\ draws = <<>> /\ segment = <<>>
    /\ objects = <<>> /\ frames = 0 /\ rasterized = <<>> /\ IdleLoop

NextFrame ==
    \/ \E obj \in ObjectInputs : RendererAddObject(obj)
    \/ RendererRender

SpecFrame == InitFrameSpec /\ [][NextFrame]_vars

(***************************************************************************)
(* Properties of the polytope classes                                      *)
(***************************************************************************)
\* what get_transformed_vertices returns on the fields s of an object of class c
WorldOf(c, s, keys) ==
    CASE c = "Shape4D" -> ShapeWorld(s, keys)
      [] c = "Hypercube" -> HypercubeWorld(s.transform)
      [] c = "Simplex4D" -> SimplexWorld(s.transform, s.position)
      [] c = "SixteenCell" -> SixteenCellWorld(s.transform, s.position)

\* C1: whenever a Shape4D's dirty flag is false, the cached matrix equals the
\* matrix derived afresh from the current position, rotation angles and scale.
CacheCoherent ==
    (cls = "Shape4D" /\ ~transform_dirty) =>
        transform_matrix =
            UpdateTransformMatrix(position, rotation, rotationKeys, scale, TRUE).matrix

\* a clean cache of a shape that has been moved, turned and scaled
CacheCoherentWitness ==
    /\ cls = "Shape4D" /\ ~transform_dirty
    /\ position = <<1, 0, 0, 2>> /\ scale = 2 /\ rotation["xy"] = 1

\* C2: get_transformed_vertices of a Shape4D returns, for every base vertex
\* v, the point p + s * (R v): rotated about the origin, then scaled, then
\* translated by the position in all four coordinates.
RotateScaleTranslate ==
    (/\ cls = "Shape4D"
     /\ lastOp.kind = "get_transformed_vertices"
     /\ err = "none"
     /\ Len(position) = 4) =>
        ret = [i \in 1..Len(ShapeVertices) |->
                 VecAdd(position,
                        VecScale(scale,
                                 MatVec(create_rotation_matrix_4d(rotation), ShapeVertices[i])))]

\* C3: a Hypercube of size 2 that was never rotated or scaled and is at its
\* default position or was placed at the origin has 16 world vertices whose
\* coordinates are all -1 or 1.
UnitCubeAtOrigin ==
    (/\ cls = "Hypercube"
     /\ lastOp.kind = "get_transformed_vertices"
     /\ ~everRotated /\ ~everScaled
     /\ lastPos \in {<<>>, Zero4}) =>
        /\ Len(ret) = 16
        /\ \A n \in 1..16 : \A c \in 1..4 : ret[n][c] \in {-1, 1}

\* C4: after any set_position and rotate calls every world vertex of a
\* Hypercube is p + R v, with p the last position set and R the product of
\* the rotations applied.
PositionIndependentOfOrientation ==
    (cls = "Hypercube" /\ lastPos # <<>> /\ ~everScaled) =>
        HypercubeWorld(transform) =
            [n \in 1..16 |-> VecAdd(lastPos, MatVec(rotAcc, HypercubeVertices[n]))]

\* C5: rotate by a in one plane followed at once by rotate by -a in the same
\* plane brings get_transformed_vertices back to what it returned before the
\* first of the two calls, in every class and plane.
RotateThenBack ==
    undone # <<>> => WorldOf(cls, Snap, rotationKeys) = WorldOf(cls, undone, rotationKeys)

\* a quarter turn and back, in classes that store a matrix and in the one
\* that stores angles, from a pose an earlier call produced
RotateThenBackWitness ==
    /\ undone # <<>>
    /\ steps = 3
    /\ \/ cls = "SixteenCell" /\ undone.transform # Identity /\ lastOp.args = Single("zw", -1)
       \/ cls = "Shape4D" /\ undone.scale = 2 /\ lastOp.args = Single("yw", 1)

\* C6: setting a scale s <= 0 fails with an error and leaves the object's
\* fields as they were.
NonPositiveScaleRejected ==
    (lastOp.kind = "set_scale" /\ lastOp.args <= 0) =>
        (err # "none" /\ Snap = pre)

\* C7: set_position with a position whose length is not 4 is rejected with
\* an error and the stored position and transform stay unchanged, in every
\* class.
MalformedPositionRejected ==
    (lastOp.kind = "set_position" /\ Len(lastOp.args) # 4) =>
        (err # "none" /\ Snap = pre)

(***************************************************************************)
(* Properties of the camera and of the projections                         *)
(***************************************************************************)
\* C8: computing the look-at view matrix with the eye on the target fails
\* with an error, both at a direct call and when the camera recomputes its
\* view matrix after key presses have moved it onto its target.
DegenerateLookAtFails ==
    (owner # "none" /\ camera_position = camera_target) => err # "none"

ZoomKeys == ZoomOutKeys \cup ZoomInKeys

\* C9: after any zoom command (zoom in or zoom out), for any camera and any
\* sequence of zoom commands, the projection distance is at least 0.1.
ZoomKeepsDistance ==
    (owner # "none" /\ lastOp.kind = "key" /\ lastOp.args \in ZoomKeys) =>
        ~FracLess(distance, MinDistance)

\* C10: projecting a point whose w equals the projection distance raises no
\* error and returns finite coordinates, the divisor used being non-zero, in
\* both perspective projection functions.
ProjectionAtSingularityFinite ==
    (projected # <<>> /\ points_4d[4] = proj_distance) =>
        (projected.err = "none" /\ projected.finite /\ projected.divisor # 0)

\* C11: the math_4d projection of a point p at distance d is p.xyz times
\* d / max(d - p.w, eps): the divisor is d - p.w when that is at least eps and
\* eps otherwise (negative values included), so the factor is never negative.
ProjectionClampsUpToEps ==
    (projected # <<>> /\ projected.fn = "math_4d") =>
        LET divisor == IF proj_distance - points_4d[4] < Eps THEN Eps
                       ELSE proj_distance - points_4d[4]
        IN /\ projected.divisor = divisor
           /\ projected.coords = <<Ratio(points_4d[1] * proj_distance, divisor),
                                   Ratio(points_4d[2] * proj_distance, divisor),
                                   Ratio(points_4d[3] * proj_distance, divisor)>>

\* k is q rounded to an integer (either way when q is half way)
IsRounded(k, q) ==
    LET below == q[1] \div q[2]
        rest == q[1] % q[2]
    IN \/ k = below /\ 2 * rest <= q[2]
       \/ k = below + 1 /\ 2 * rest >= q[2]

\* C12: Camera.project_4d_to_2d maps the projected point p to
\* x = round(p.x * 100 + width / 2), y = round(-p.y * 100 + height / 2) and
\* depth = p.z, for every point and every viewport size.
ScreenPointIsRounded ==
    screen_point # <<>> =>
        LET q == screen_point.projected
        IN /\ IsRounded(screen_point.x,
                        FracAdd(FracMul(q[1], <<PixelsPerUnit, 1>>), Frac(viewport[1], 2)))
           /\ IsRounded(screen_point.y,
                        FracAdd(FracMul(FracNeg(q[2]), <<PixelsPerUnit, 1>>),
                                Frac(viewport[2], 2)))
           /\ screen_point.depth = q[3]

(***************************************************************************)
(* Properties of draw_line_4d                                              *)
(***************************************************************************)
\* C13: if both projected endpoints have depth below the near plane, or both
\* beyond the far plane, draw_line_4d issues no draw call and every z-buffer
\* cell keeps its value.
DepthRejectionDiscards ==
    (/\ segment # <<>>
     /\ \/ FracLess(segment.p1.z, NearPlane) /\ FracLess(segment.p2.z, NearPlane)
        \/ FracLess(FarPlane, segment.p1.z) /\ FracLess(FarPlane, segment.p2.z))
    => (draws = <<>> /\ zbuffer = segment.zbefore)

\* both endpoints beyond the far plane, inside the viewport, on a z-buffer
DepthRejectionDiscardsWitness ==
    /\ segment # <<>> /\ segment.stage = "depth_rejected"
    /\ FracLess(FarPlane, segment.p1.z) /\ FracLess(FarPlane, segment.p2.z)
    /\ segment.p1.x = <<2, 1>> /\ segment.p2.x = <<0, 1>>
    /\ zbuffer # <<>> /\ zbuffer[<<1, 1>>] = Frac(1, 1)

\* both endpoints p, q on one side of the rectangle from lo to hi
SameSide(p, q, lo, hi) ==
    \/ FracLess(p.x, <<lo[1], 1>>) /\ FracLess(q.x, <<lo[1], 1>>)
    \/ FracLess(<<hi[1], 1>>, p.x) /\ FracLess(<<hi[1], 1>>, q.x)
    \/ FracLess(p.y, <<lo[2], 1>>) /\ FracLess(q.y, <<lo[2], 1>>)
    \/ FracLess(<<hi[2], 1>>, p.y) /\ FracLess(<<hi[2], 1>>, q.y)

InRectangle(p, lo, hi) ==
    /\ ~FracLess(p.x, <<lo[1], 1>>) /\ ~FracLess(<<hi[1], 1>>, p.x)
    /\ ~FracLess(p.y, <<lo[2], 1>>) /\ ~FracLess(<<hi[2], 1>>, p.y)

InDepthRange(z) == ~FracLess(z, NearPlane) /\ ~FracLess(FarPlane, z)

\* C15: a segment whose projected endpoints both lie inside the viewport and
\* whose depths both lie within [near, far] produces exactly one draw call,
\* with exactly the projected endpoint coordinates, whatever the z-buffer holds.
InsideDrawnOnce ==
    (/\ segment # <<>>
     /\ InRectangle(segment.p1, <<0, 0>>, viewport)
     /\ InRectangle(segment.p2, <<0, 0>>, viewport)
     /\ InDepthRange(segment.p1.z) /\ InDepthRange(segment.p2.z))
    => (/\ Len(draws) = 1
        /\ <<draws[1].start[1], 1>> = segment.p1.x /\ <<draws[1].start[2], 1>> = segment.p1.y
        /\ <<draws[1].end[1], 1>> = segment.p2.x /\ <<draws[1].end[2], 1>> = segment.p2.y)

\* a segment inside the viewport drawn behind a z-buffer that occludes all of it
InsideDrawnOnceWitness ==
    /\ segment # <<>> /\ Len(draws) = 1
    /\ segment.p1.x = <<0, 1>> /\ segment.p2.x = <<3, 1>>
    /\ segment.zbefore # <<>> /\ segment.zbefore[<<0, 0>>] = Frac(1, 4)
    /\ zbuffer = segment.zbefore

\* the z-buffer after testing, at the samples i, i + 1, ..., the depth
\* interpolated between the endpoint depths z1 and z2
RECURSIVE InterpolatedLoop(_, _, _, _, _, _)
InterpolatedLoop(zb, c, z1, z2, size, i) ==
    IF i >= NumSamples THEN zb
    ELSE LET cell == SampleCell(c, i)
             z == Lerp(z1, z2, Frac(i, NumSamples - 1))
         IN InterpolatedLoop(IF /\ cell \in DOMAIN zb /\ FracLess(z, zb[cell])
                                 THEN [zb EXCEPT ![cell] = z] ELSE zb,
                             c, z1, z2, size, i + 1)

\* C16: for each sample along the clipped segment that falls inside the
\* z-buffer, draw_line_4d tests the depth interpolated between the endpoint
\* depths at that sample, so afterwards each cell holds the minimum of its
\* previous value and the interpolated depths of the samples in it.
ZBufferHoldsInterpolatedDepth ==
    (segment # <<>> /\ segment.stage = "drawn" /\ segment.zbefore # <<>>)
    => zbuffer = InterpolatedLoop(segment.zbefore, segment.clip, segment.z1, segment.z2,
                                  viewport, 0)

\* C17: a segment of zero length after projection and clipping (both
\* endpoints at the same pixel) issues no draw call.
ZeroLengthNotDrawn ==
    (/\ segment # <<>> /\ segment.clip # <<>> /\ segment.clip.status = "accept"
     /\ LineCommand(segment.clip).start = LineCommand(segment.clip).end)
    => draws = <<>>

\* (x, y) lies on the segment from a to b
OnSegment(x, y, a, b) ==
    /\ FracMul(FracSub(x, a.x), FracSub(b.y, a.y)) = FracMul(FracSub(y, a.y), FracSub(b.x, a.x))
    /\ ~FracLess(x, FracMin(a.x, b.x)) /\ ~FracLess(y, FracMin(a.y, b.y))
    /\ ~FracLess(FracNeg(x), FracMin(FracNeg(a.x), FracNeg(b.x)))
    /\ ~FracLess(FracNeg(y), FracMin(FracNeg(a.y), FracNeg(b.y)))

\* C18: the clipping loop of draw_line_4d ends, for every pair of endpoints,
\* either by rejecting the segment (no draw) or by accepting it with both
\* endpoints inside the padded viewport and on the original segment; no
\* intersection divides by zero.
ClippingEnds ==
    (segment # <<>> /\ segment.stage # "depth_rejected")
    => LET c == segment.clip
           lo == <<0 - ViewportPadding, 0 - ViewportPadding>>
           hi == <<viewport[1] + ViewportPadding, viewport[2] + ViewportPadding>>
       IN /\ c.status \in {"accept", "reject"}
          /\ c.status = "reject" => draws = <<>>
          /\ c.status = "accept" =>
                /\ InRectangle([x |-> c.x1, y |-> c.y1], lo, hi)
                /\ InRectangle([x |-> c.x2, y |-> c.y2], lo, hi)
                /\ OnSegment(c.x1, c.y1, segment.p1, segment.p2)
                /\ OnSegment(c.x2, c.y2, segment.p1, segment.p2)

\* a segment accepted after three intersections
ClippingEndsWitness ==
    /\ segment # <<>> /\ segment.stage = "drawn"
    /\ segment.clip.iterations = 3
    /\ segment.clip.x1 # segment.p1.x /\ segment.clip.y2 # segment.p2.y

(***************************************************************************)
(* Properties of render()                                                  *)
(***************************************************************************)
\* C19: every render() first resets every z-buffer cell to +infinity and
\* fills the surface, before any object of the frame is drawn: the first
\* segment of the frame is depth-tested against a buffer of +infinity only,
\* the fill is the first call on the surface and the only fill of the frame,
\* and a frame that draws nothing leaves every cell at +infinity.
FrameStartsCleared ==
    lastOp.kind = "render"
    => /\ Len(draws) >= 1 /\ draws[1].fn = "fill"
       /\ \A k \in 2..Len(draws) : draws[k].fn # "fill"
       /\ segment # <<>> => \A c \in DOMAIN segment.zbefore : segment.zbefore[c] = <<1, 0>>
       /\ rasterized = <<>> => \A c \in DOMAIN zbuffer : zbuffer[c] = <<1, 0>>

\* a frame that depth-tests segments after a frame that wrote depths
FrameStartsClearedWitness ==
    /\ lastOp.kind = "render" /\ frames >= 2
    /\ \E c \in DOMAIN pre.zbuffer : pre.zbuffer[c] # <<1, 0>>
    /\ segment # <<>> /\ segment.stage = "drawn"
    /\ \E c \in DOMAIN zbuffer : zbuffer[c] # <<1, 0>>

\* C20: in each render(), for every polytope of the scene (Hypercube,
\* Simplex4D or SixteenCell), in insertion order, draw_line_4d is called once
\* for every edge of that polytope; no polytope of the scene is skipped.
EveryPolytopeRasterized ==
    lastOp.kind = "render"
    => /\ \A i \in 1..Len(objects) :
              SelectSeq(rasterized, LAMBDA t : t[1] = i)
                  = [k \in 1..Len(Edges(objects[i].cls)) |-> <<i, Edges(objects[i].cls)[k]>>]
       /\ \A j, k \in 1..Len(rasterized) : j < k => rasterized[j][1] <= rasterized[k][1]

(***************************************************************************)
(* Properties of the rotation order, the stored angles and the topology    *)
(***************************************************************************)
\* C22: the rotation matrix derived from six plane angles depends only on
\* the angles and is the composition in the order xy, xz, xw, yz, yw, zw:
\* the matrix a Shape4D derives from its stored angles is the one derived in
\* that order, however its mapping was supplied, and a single rotate call on
\* a fresh Hypercube, Simplex4D or SixteenCell gives the matrix that
\* create_rotation_matrix_4d gives for the same angles.
RotationOrderFixed ==
    /\ (cls = "Shape4D" /\ lastOp.kind = "get_transform_matrix" /\ err = "none")
       => ret = UpdateTransformMatrix(position, rotation, PlaneOrder, scale, TRUE).matrix
    /\ (/\ cls \in {"Hypercube", "Simplex4D", "SixteenCell"}
        /\ lastOp.kind = "rotate" /\ steps = 1 /\ lastPos = <<>>)
       => transform = create_rotation_matrix_4d(Full(lastOp.args))

\* C23: after construction and after any rotate and set_rotation calls, each
\* of the six stored rotation angles of a Shape4D lies in [0, 2 pi).
StoredAnglesWrapped ==
    cls = "Shape4D" => \A p \in DOMAIN rotation : 0 <= rotation[p] /\ rotation[p] < TwoPi

\* C27: for a Hypercube in any pose both renderers draw each edge (a, b)
\* between the same two 4D endpoints, entries a and b of
\* get_transformed_vertices(): the endpoints render_hypercube of
\* core/renderer.py passes to the line drawing are those that
\* render_hypercube of pygame/renderer.py passes.
RenderersDrawSameEndpoints ==
    cls = "Hypercube" =>
        \A k \in 1..Len(Edges("Hypercube")) : \A a \in {Edges("Hypercube")[k][1],
                                                        Edges("Hypercube")[k][2]} :
            CoreRenderHypercubeEndpoint(transform, a) = HypercubeWorld(transform)[a + 1]


\* the number of vertices of a polytope of a class
VertexCount(class) ==
    CASE class = "Hypercube" -> Len(HypercubeVertices)
      [] class = "Simplex4D" -> Len(SimplexBaseVertices)
      [] class = "SixteenCell" -> Len(SixteenCellBaseVertices)

\* C24: at every point of the life of a Hypercube, a Simplex4D or a
\* SixteenCell, every vertex index in its edges, faces and cells is below the
\* vertex count, no edge joins a vertex to itself, and no unordered pair of
\* vertices appears twice among its edges
TopologyWellFormed ==
    cls \in {"Hypercube", "Simplex4D", "SixteenCell"} =>
        \A E \in {Edges(cls)} : \A n \in {VertexCount(cls)} :
            /\ \A list \in {E, Faces(cls), Cells(cls)} :
                   \A k \in DOMAIN list : \A c \in DOMAIN list[k] :
                       0 <= list[k][c] /\ list[k][c] < n
            /\ \A k \in DOMAIN E : E[k][1] # E[k][2]
            /\ \A k, m \in DOMAIN E :
                   {E[k][1], E[k][2]} = {E[m][1], E[m][2]} => k = m

TopologyWellFormedWitness ==
    /\ cls = "SixteenCell" /\ lastOp.kind = "rotate" /\ steps >= 2
    /\ transform # Identity


\* the number of coordinates in which two vertices differ
Differ(a, b) == Cardinality({c \in DOMAIN a : a[c] # b[c]})

\* C25: a Hypercube has exactly 32 edges, every edge joins two base vertices
\* that differ in exactly one coordinate, and every pair of base vertices that
\* differ in exactly one coordinate is joined by an edge
HypercubeEdgesJoinNeighbours ==
    cls = "Hypercube" =>
        \A E \in {Edges("Hypercube")} : \A V \in {HypercubeVertices} :
            /\ Len(E) = 32
            /\ \A k \in DOMAIN E : Differ(V[E[k][1] + 1], V[E[k][2] + 1]) = 1
            /\ \A i, j \in DOMAIN V :
                   Differ(V[i], V[j]) = 1
                       => \E k \in DOMAIN E : {E[k][1], E[k][2]} = {i - 1, j - 1}

HypercubeEdgesJoinNeighboursWitness ==
    /\ cls = "Hypercube" /\ steps >= 1 /\ lastOp.kind = "get_transformed_vertices"
    /\ Len(ret) = 16


(***************************************************************************)
(* A camera that is moved between projections (core/camera.py)             *)
(*                                                                         *)
(* ret is the last projection of the points: the eye and the distance of   *)
(* the camera at the call and the screen point of every point; pre is the  *)
(* projection before it.                                                   *)
(***************************************************************************)
\* camera.project_4d_to_2d(p) for every point p of ScreenPointInputs, as a
\* renderer calls it for the vertices of a frame
CameraProjectPoints ==
    /\ owner = "Camera" /\ frames < MaxFrames
    /\ ret' = [eye |-> camera_position, distance |-> distance,
               view_matrix |-> view_matrix,
               screen |-> [p \in ScreenPointInputs |->
                              project_4d_to_2d(p, distance, viewport)]]
    /\ pre' = ret
    /\ frames' = frames + 1
    /\ lastOp' = [kind |-> "project_4d_to_2d", args |-> <<>>]
    /\ UNCHANGED <<cls, position, rotation, rotationKeys, scale, transform_matrix,
                   transform_dirty, transform, err, undone, lastPos, rotAcc,
                   everRotated, everScaled, steps, cameraVars, projVars, viewport,
                   screen_point, zbuffer, draws, segment, objects, rasterized,
                   loopVars>>

InitViewSpec ==
    /\ InitRasterHistory
    /\ IdlePolytope /\ InitRasterCamera /\ IdleProjection
    /\ viewport = <<800, 600>>
    /\ screen_point = <<>> /\ zbuffer = <<>>
    /\ draws = <<>> /\ segment = <<>> /\ objects = <<>> /\ frames = 0
    /\ rasterized = <<>> /\ IdleLoop

\* the keys pressed between projections: the movement keys and one other key
ViewKeyInputs == MoveKeys \cup {"K_SPACE"}

NextView ==
    \/ \E key \in ViewKeyInputs : CameraHandleKeyPress(key)
    \/ CameraProjectPoints

SpecView == InitViewSpec /\ [][NextView]_vars

\* C26: the screen coordinates of a point are computed through the camera's
\* current view transform: two projections made by cameras that differ only
\* in the eye (the distance is the same) do not give the same screen
\* coordinates for every point
ProjectionUsesView ==
    (/\ lastOp.kind = "project_4d_to_2d" /\ pre # <<>>
     /\ pre.eye # ret.eye /\ pre.distance = ret.distance)
        => \E p \in ScreenPointInputs :
               <<pre.screen[p].x, pre.screen[p].y>> # <<ret.screen[p].x, ret.screen[p].y>>

(***************************************************************************)
(* Simulation (engine/simulation.py)                                       *)
(*                                                                         *)
(* sim is a record: pc is where run() is ("idle" before the call,          *)
(* "running" at the top of the loop body, "returned"), running is          *)
(* _running, on_step tells whether a step callback is set, now is the last *)
(* reading of time.perf_counter(), calls lists the calls made by run() as  *)
(* <<name, dt>>, stopped is <<n>> for the length n of calls when stop()   *)
(* was first called in the run (<<>>: never), and elapsed is now - start  *)
(* at the last tick.  Times are in units of half a tick.                  *)
(***************************************************************************)
MaxTicks == 3

\* self.tick, the seconds per frame
Tick == 2

\* time that passes between two readings of the clock
ElapsedInputs == {1, 2, 3}

\* run(duration): None (<<>>), or <<d>> for d half ticks
DurationInputs == {<<>>, <<0>>, <<3>>, <<5>>}

SimFrame == UNCHANGED <<cls, position, rotation, rotationKeys, scale, transform_matrix,
                        transform_dirty, transform, ret, err, lastOp, pre, undone,
                        lastPos, rotAcc, everRotated, everScaled, steps, cameraVars,
                        projVars, rasterVars, run, mouse>>

\* stop() called while calls is the list of the calls made
Stopped(s, called) ==
    IF called THEN [s EXCEPT !.running = FALSE,
                             !.stopped = IF @ = <<>> THEN <<Len(s.calls)>> ELSE @]
    ELSE s

\* the test of the while statement, reached at the end of an iteration
WhileTest(s) == IF s.running THEN s ELSE [s EXCEPT !.pc = "returned"]

\* an iteration that goes back to the top of the loop whatever _running is
SimulationIteration_NoRunningTest(s, elapsed, stopInUpdate, stopInCallback) ==
    LET now == s.now + elapsed
        dt == now - s.last
        updated == Stopped([s EXCEPT !.now = now, !.last = now, !.ticks = @ + 1,
                                     !.elapsed = now - s.start,
                                     !.calls = Append(@, <<"update", dt>>)],
                           stopInUpdate)
        stepped == IF s.on_step
                       THEN Stopped([updated EXCEPT !.calls = Append(@, <<"callback", dt>>)],
                                    stopInCallback)
                       ELSE updated
    IN IF dt < Tick THEN [s EXCEPT !.now = now + (Tick - dt)]
       ELSE IF s.duration # <<>> /\ now - s.start >= s.duration[1]
                THEN [stepped EXCEPT !.pc = "returned"]
                ELSE stepped

\* one iteration of the loop of run() and the while test that follows it.  The
\* clock has advanced by elapsed since it was last read; an object's update
\* calls stop() if stopInUpdate, the step callback calls it if stopInCallback.
SimulationIteration(s, elapsed, stopInUpdate, stopInCallback) ==
    LET now == s.now + elapsed
        dt == now - s.last
        updated == Stopped([s EXCEPT !.now = now, !.last = now, !.ticks = @ + 1,
                                     !.elapsed = now - s.start,
                                     !.calls = Append(@, <<"update", dt>>)],
                           stopInUpdate)
        stepped == IF s.on_step
                       THEN Stopped([updated EXCEPT !.calls = Append(@, <<"callback", dt>>)],
                                    stopInCallback)
                       ELSE updated
    IN IF dt < Tick THEN WhileTest([s EXCEPT !.now = now + (Tick - dt)])
       ELSE IF s.duration # <<>> /\ now - s.start >= s.duration[1]
                THEN [stepped EXCEPT !.pc = "returned"]
                ELSE WhileTest(stepped)

\* set_step_callback(fn), before run()
SimulationSetStepCallback ==
    /\ sim # <<>> /\ sim.pc = "idle" /\ ~sim.on_step
    /\ sim' = [sim EXCEPT !.on_step = TRUE]
    /\ SimFrame

\* run(duration) up to the first test of the while statement
SimulationRun(duration) ==
    /\ sim # <<>> /\ sim.pc = "idle"
    /\ sim' = [sim EXCEPT !.pc = "running", !.running = TRUE, !.duration = duration,
                          !.start = sim.now, !.last = sim.now]
    /\ SimFrame

\* run(): one iteration
SimulationStep(elapsed, stopInUpdate, stopInCallback) ==
    /\ sim # <<>> /\ sim.pc = "running" /\ sim.ticks < MaxTicks
    /\ sim' = SimulationIteration(sim, elapsed, stopInUpdate, stopInCallback)
    /\ SimFrame

\* Simulation(scene): _running is False and no callback is set
InitSimSpec ==
    /\ InitRasterHistory /\ err = "none"
    /\ IdlePolytope /\ IdleCamera /\ IdleProjection /\ IdleRaster
    /\ run = <<>> /\ mouse = <<>>
    /\ sim = [pc |-> "idle", running |-> FALSE, on_step |-> FALSE, duration |-> <<>>,
              now |-> 0, start |-> 0, last |-> 0, calls |-> <<>>, stopped |-> <<>>,
              ticks |-> 0, elapsed |-> 0]

NextSim ==
    \/ SimulationSetStepCallback
    \/ \E duration \in DurationInputs : SimulationRun(duration)
    \/ \E elapsed \in ElapsedInputs, stopInUpdate \in BOOLEAN, stopInCallback \in BOOLEAN :
           SimulationStep(elapsed, stopInUpdate, stopInCallback)

SpecSim == InitSimSpec /\ [][NextSim]_vars

\* every tick is scene.update(dt) followed, when a callback is set, by the
\* callback with the same dt
TicksInOrder ==
    \A k \in DOMAIN sim.calls :
        IF sim.on_step
            THEN /\ sim.calls[k][1] = (IF k % 2 = 1 THEN "update" ELSE "callback")
                 /\ k % 2 = 0 => sim.calls[k][2] = sim.calls[k - 1][2]
            ELSE sim.calls[k][1] = "update"

\* with a finite duration, run() has returned once a tick was made at which
\* the elapsed time had reached the duration
ReturnsAtDuration ==
    (sim.ticks > 0 /\ sim.duration # <<>> /\ sim.elapsed >= sim.duration[1])
        => sim.pc = "returned"

\* C30 as stated: each tick of Simulation.run performs scene.update(dt) and
\* then the step callback with the same dt; once stop() has been called during
\* a run no further scene update or callback is performed and run returns;
\* with a finite duration run returns after the first tick at which the
\* elapsed time has reached the duration
StopEndsAllCalls ==
    sim # <<>> =>
        /\ TicksInOrder
        /\ sim.stopped # <<>> => (sim.pc = "returned" /\ Len(sim.calls) = sim.stopped[1])
        /\ ReturnsAtDuration

\* C30, amended: each tick performs scene.update(dt) and then the step
\* callback with the same dt; once stop() has been called during a run, the
\* tick in progress is finished (after a stop() from inside scene.update its
\* step callback is still performed), no further tick is started and run
\* returns; with a finite duration run returns after the first tick at which
\* the elapsed time has reached the duration
StopEndsAfterTick ==
    sim # <<>> =>
        /\ TicksInOrder
        /\ sim.stopped # <<>> =>
               /\ sim.pc = "returned"
               /\ \/ Len(sim.calls) = sim.stopped[1]
                  \/ /\ Len(sim.calls) = sim.stopped[1] + 1
                     /\ sim.calls[sim.stopped[1]][1] = "update"
                     /\ sim.calls[Len(sim.calls)] =
                            <<"callback", sim.calls[sim.stopped[1]][2]>>
        /\ ReturnsAtDuration

\* stop() was called from inside scene.update in the second tick of a run
\* with a callback, and run() has returned
StopEndsAfterTickWitness ==
    /\ sim # <<>> /\ sim.pc = "returned" /\ sim.on_step
    /\ sim.stopped = <<3>> /\ Len(sim.calls) = 4

(***************************************************************************)
(* PygameRenderer.run and InputHandler (core/renderer.py, input/handlers.py)*)
(*                                                                         *)
(* run is a record: pc is where run() is ("idle" before the call, then the *)
(* call the loop makes next, "returned" at the end), running is the local  *)
(* variable of run(), handler_running is input_handler.running, queue is   *)
(* pygame's event queue, batch is what the last pygame.event.get()         *)
(* returned, calls lists the calls of the current iteration, posted counts *)
(* the events posted and quit tells whether the last handle_events()       *)
(* returned False.                                                         *)
(* mouse is a record: is_rotating and last_mouse_pos are the camera's      *)
(* fields, log lists the mouse events handled and drags the calls of       *)
(* camera.handle_mouse_motion that passed its is_rotating test, as the     *)
(* index of the motion event in log and the (dx, dy) passed.               *)
(***************************************************************************)
MaxEvents == 3

\* positions of the mouse pointer
MousePositions == {<<1, 1>>, <<4, 2>>}

Event(type, key, button, pos) == [type |-> type, key |-> key, button |-> button, pos |-> pos]

\* the events posted: the window is closed, Escape or another key is pressed,
\* the left button (1) or the right one (3) is pressed or released, the
\* pointer moves
EventInputs ==
    {Event("QUIT", "", 0, <<0, 0>>), Event("KEYDOWN", "K_ESCAPE", 0, <<0, 0>>),
     Event("KEYDOWN", "K_SPACE", 0, <<0, 0>>),
     Event("MOUSEBUTTONDOWN", "", 3, <<4, 2>>), Event("MOUSEBUTTONUP", "", 1, <<4, 2>>)}
    \cup {Event("MOUSEBUTTONDOWN", "", 1, pos) : pos \in MousePositions}
    \cup {Event("MOUSEMOTION", "", 0, pos) : pos \in MousePositions}

\* a handler whose _key_handlers has no entry for Escape
HandleEvent_EscapeUnbound(st, e) ==
    CASE e.type = "QUIT" -> [st EXCEPT !.returned = TRUE, !.result = FALSE]
      [] e.type = "KEYDOWN" -> st
      [] e.type = "MOUSEBUTTONDOWN" ->
             [st EXCEPT !.mouse.log = Append(@, e),
                        !.mouse.is_rotating = IF e.button = 1 THEN TRUE ELSE @,
                        !.mouse.last_mouse_pos = IF e.button = 1 THEN e.pos ELSE @]
      [] e.type = "MOUSEBUTTONUP" ->
             [st EXCEPT !.mouse.log = Append(@, e),
                        !.mouse.is_rotating = IF e.button = 1 THEN FALSE ELSE @]
      [] e.type = "MOUSEMOTION" ->
             IF ~st.mouse.is_rotating THEN [st EXCEPT !.mouse.log = Append(@, e)]
             ELSE [st EXCEPT !.mouse.log = Append(@, e),
                             !.mouse.drags =
                                 Append(@, [at |-> Len(st.mouse.log) + 1,
                                            delta |-> <<e.pos[1] - st.mouse.last_mouse_pos[1],
                                                        e.pos[2] - st.mouse.last_mouse_pos[2]>>]),
                             !.mouse.last_mouse_pos = e.pos]

\* a handler whose _handle_mouse_motion does not test camera.is_rotating (and
\* a camera.handle_mouse_motion that does not either)
HandleEvent_AlwaysDrags(st, e) ==
    CASE e.type = "QUIT" -> [st EXCEPT !.returned = TRUE, !.result = FALSE]
      [] e.type = "KEYDOWN" ->
             IF e.key = "K_ESCAPE" THEN [st EXCEPT !.running = FALSE] ELSE st
      [] e.type = "MOUSEBUTTONDOWN" ->
             [st EXCEPT !.mouse.log = Append(@, e),
                        !.mouse.is_rotating = IF e.button = 1 THEN TRUE ELSE @,
                        !.mouse.last_mouse_pos = IF e.button = 1 THEN e.pos ELSE @]
      [] e.type = "MOUSEBUTTONUP" ->
             [st EXCEPT !.mouse.log = Append(@, e),
                        !.mouse.is_rotating = IF e.button = 1 THEN FALSE ELSE @]
      [] e.type = "MOUSEMOTION" ->
             [st EXCEPT !.mouse.log = Append(@, e),
                        !.mouse.drags =
                            Append(@, [at |-> Len(st.mouse.log) + 1,
                                       delta |-> <<e.pos[1] - st.mouse.last_mouse_pos[1],
                                                   e.pos[2] - st.mouse.last_mouse_pos[2]>>]),
                        !.mouse.last_mouse_pos = e.pos]

\* the body of the for loop of handle_events for one event e.  st holds
\* input_handler.running, the camera's mouse fields, and whether and with what
\* the method has returned.  A key other than Escape goes to
\* camera.handle_key_press; K_SPACE is in none of its branches.
HandleEvent(st, e) ==
    CASE e.type = "QUIT" -> [st EXCEPT !.returned = TRUE, !.result = FALSE]
      [] e.type = "KEYDOWN" ->
             IF e.key = "K_ESCAPE" THEN [st EXCEPT !.running = FALSE] ELSE st
      [] e.type = "MOUSEBUTTONDOWN" ->
             [st EXCEPT !.mouse.log = Append(@, e),
                        !.mouse.is_rotating = IF e.button = 1 THEN TRUE ELSE @,
                        !.mouse.last_mouse_pos = IF e.button = 1 THEN e.pos ELSE @]
      [] e.type = "MOUSEBUTTONUP" ->
             [st EXCEPT !.mouse.log = Append(@, e),
                        !.mouse.is_rotating = IF e.button = 1 THEN FALSE ELSE @]
      [] e.type = "MOUSEMOTION" ->
             IF ~st.mouse.is_rotating THEN [st EXCEPT !.mouse.log = Append(@, e)]
             ELSE [st EXCEPT !.mouse.log = Append(@, e),
                             !.mouse.drags =
                                 Append(@, [at |-> Len(st.mouse.log) + 1,
                                            delta |-> <<e.pos[1] - st.mouse.last_mouse_pos[1],
                                                        e.pos[2] - st.mouse.last_mouse_pos[2]>>]),
                             !.mouse.last_mouse_pos = e.pos]

\* handle_events from event i of the batch on: the loop ends at a QUIT event,
\* and returns self.running after the last event
RECURSIVE handle_events(_, _, _)
handle_events(st, events, i) ==
    IF st.returned THEN st
    ELSE IF i > Len(events) THEN [st EXCEPT !.returned = TRUE, !.result = st.running]
    ELSE handle_events(HandleEvent(st, events[i]), events, i + 1)

RunFrame == UNCHANGED <<cls, position, rotation, rotationKeys, scale, transform_matrix,
                        transform_dirty, transform, ret, err, lastOp, pre, undone,
                        lastPos, rotAcc, everRotated, everScaled, steps, cameraVars,
                        projVars, rasterVars, sim>>

\* an event arrives in pygame's queue
PostEvent(e) ==
    /\ run # <<>> /\ run.pc # "returned" /\ run.posted < MaxEvents
    /\ run' = [run EXCEPT !.queue = Append(@, e), !.posted = @ + 1]
    /\ UNCHANGED mouse /\ RunFrame

\* run(): running = True and the first test of the while statement
RendererRun ==
    /\ run # <<>> /\ run.pc = "idle"
    /\ run' = [run EXCEPT !.pc = "handle_events", !.running = TRUE]
    /\ UNCHANGED mouse /\ RunFrame

\* running = self.input_handler.handle_events()
RunHandleEvents ==
    /\ run # <<>> /\ run.pc = "handle_events"
    /\ LET r == handle_events([running |-> run.handler_running, mouse |-> mouse,
                               returned |-> FALSE, result |-> TRUE], run.queue, 1)
       IN /\ run' = [run EXCEPT !.pc = "update", !.running = r.result,
                                !.handler_running = r.running, !.queue = <<>>,
                                !.batch = run.queue, !.calls = <<"handle_events">>,
                                !.quit = ~r.result]
          /\ mouse' = r.mouse
    /\ RunFrame

\* self.update(dt)
RunUpdate ==
    /\ run # <<>> /\ run.pc = "update"
    /\ run' = [run EXCEPT !.pc = "render", !.calls = Append(@, "update")]
    /\ UNCHANGED mouse /\ RunFrame

\* self.render(), self.clock.tick(target_fps) and the test of the while
\* statement; pygame.quit() when the loop ends
RunRender ==
    /\ run # <<>> /\ run.pc = "render"
    /\ run' = [run EXCEPT !.pc = IF run.running THEN "handle_events" ELSE "returned",
                          !.calls = Append(@, "render")]
    /\ UNCHANGED mouse /\ RunFrame

\* PygameRenderer(...): InputHandler.running is True; Camera.is_rotating is
\* False and Camera.last_mouse_pos is (0, 0)
InitRunSpec ==
    /\ InitRasterHistory /\ err = "none"
    /\ IdlePolytope /\ IdleCamera /\ IdleProjection /\ IdleRaster
    /\ sim = <<>>
    /\ run = [pc |-> "idle", running |-> FALSE, handler_running |-> TRUE, queue |-> <<>>,
              batch |-> <<>>, calls |-> <<>>, posted |-> 0, quit |-> FALSE]
    /\ mouse = [is_rotating |-> FALSE, last_mouse_pos |-> <<0, 0>>, log |-> <<>>,
                drags |-> <<>>]

\* the steps of the thread that runs the loop
RunLoop == RendererRun \/ RunHandleEvents \/ RunUpdate \/ RunRender

NextRun == RunLoop \/ \E e \in EventInputs : PostEvent(e)

SpecRun == InitRunSpec /\ [][NextRun]_vars

\* the loop's thread is the only one and none of its calls blocks: it always
\* takes its next step
SpecRunFair == SpecRun /\ WF_vars(RunLoop)

(***************************************************************************)
(* Properties of the writes to the z-buffer                                *)
(***************************************************************************)
\* the writes of the draw_line_4d call recorded in segment
SegmentWrites ==
    IF segment = <<>> \/ segment.stage # "drawn" \/ segment.zbefore = <<>> THEN <<>>
    ELSE ZBufferWrites(segment.zbefore, segment.clip, segment.z1, segment.z2, viewport, 0)

\* C28 as stated: every write of draw_line_4d to the z-buffer targets a cell
\* inside the buffer and strictly lowers the value of that cell, and no cell
\* of the buffer is higher after the call than before it
WritesStrictlyLower ==
    /\ \A k \in DOMAIN SegmentWrites : \A w \in {SegmentWrites[k]} :
           /\ 0 <= w.cell[1] /\ w.cell[1] < viewport[1]
           /\ 0 <= w.cell[2] /\ w.cell[2] < viewport[2]
           /\ FracLess(w.new, w.old)
    /\ (segment # <<>> /\ segment.zbefore # <<>>)
           => /\ DOMAIN segment.zbuffer = DOMAIN segment.zbefore
              /\ \A cell \in DOMAIN segment.zbefore :
                     ~FracLess(segment.zbefore[cell], segment.zbuffer[cell])

\* C28, amended: every write of draw_line_4d to the z-buffer targets a cell
\* inside the buffer and never raises the value of that cell (the depth is
\* stored as a float32, which may be the value the cell already holds), and no
\* cell of the buffer is higher after the call than before it
WritesNeverRaise ==
    /\ \A k \in DOMAIN SegmentWrites : \A w \in {SegmentWrites[k]} :
           /\ 0 <= w.cell[1] /\ w.cell[1] < viewport[1]
           /\ 0 <= w.cell[2] /\ w.cell[2] < viewport[2]
           /\ ~FracLess(w.old, w.new)
    /\ (segment # <<>> /\ segment.zbefore # <<>>)
           => /\ DOMAIN segment.zbuffer = DOMAIN segment.zbefore
              /\ zbuffer = segment.zbuffer
              /\ \A cell \in DOMAIN segment.zbefore :
                     ~FracLess(segment.zbefore[cell], segment.zbuffer[cell])

\* a segment clipped into the padding wrote a cell that held a finite depth,
\* and one of its samples fell outside the buffer
WritesNeverRaiseWitness ==
    /\ segment # <<>> /\ segment.stage = "drawn" /\ segment.zbefore # <<>>
    /\ \E k \in DOMAIN SegmentWrites : SegmentWrites[k].old # Inf
    /\ \E i \in 0..(NumSamples - 1) : SampleCell(segment.clip, i)[1] < 0


(***************************************************************************)
(* Properties of the render loop and the mouse                             *)
(***************************************************************************)
\* a window-close event or a press of Escape
IsQuitEvent(e) == e.type = "QUIT" \/ (e.type = "KEYDOWN" /\ e.key = "K_ESCAPE")

\* the calls of an iteration are handle_events, update, render in that order,
\* each made when the one before has returned; handle_events reports quit
\* exactly when its batch holds a quit event; an iteration starts only if the
\* one before did not report quit, and run() returns at the end of the
\* iteration that did
LoopInOrder ==
    run # <<>> =>
        /\ run.pc = "idle" => run.calls = <<>>
        /\ run.pc = "handle_events" =>
               /\ run.calls \in {<<>>, <<"handle_events", "update", "render">>}
               /\ ~run.quit /\ run.running
        /\ run.pc = "update" => run.calls = <<"handle_events">>
        /\ run.pc = "render" => run.calls = <<"handle_events", "update">>
        /\ run.pc = "returned" =>
               run.calls = <<"handle_events", "update", "render">> /\ run.quit
        /\ run.pc \in {"update", "render", "returned"} =>
               /\ run.quit = (\E k \in DOMAIN run.batch : IsQuitEvent(run.batch[k]))
               /\ run.running = ~run.quit

\* a quit event is in the queue of a running loop
QuitDelivered ==
    /\ run # <<>> /\ run.pc \notin {"idle", "returned"}
    /\ \E k \in DOMAIN run.queue : IsQuitEvent(run.queue[k])

\* C21: PygameRenderer.run executes handle-input, update(dt), render strictly
\* in that order in every iteration, each finishing before the next starts,
\* and tests the exit flag once per iteration: it returns after the first
\* iteration whose input handling reported quit (window-close event or Escape
\* key), so if a quit event is ever delivered run eventually returns
RunReturnsOnQuit ==
    /\ []LoopInOrder
    /\ QuitDelivered ~> (run.pc = "returned")

\* run() has returned after Escape was pressed in an iteration later than
\* the one in which the left button was pressed
RunReturnsOnQuitWitness ==
    /\ run # <<>> /\ run.pc = "returned" /\ run.posted >= 2
    /\ mouse.is_rotating
    /\ \E k \in DOMAIN run.batch : run.batch[k].key = "K_ESCAPE"
    /\ \A k \in DOMAIN run.batch : run.batch[k].type # "MOUSEBUTTONDOWN"

IsLeftButton(e) == e.type \in {"MOUSEBUTTONDOWN", "MOUSEBUTTONUP"} /\ e.button = 1

IsLeftPress(e) == e.type = "MOUSEBUTTONDOWN" /\ e.button = 1

\* C29: mouse motion orbits the camera only while the left button is held:
\* for every motion event that was applied to the camera, the most recent
\* left-button event before it was a press, and the delta applied is the
\* difference between its position and the position of the press or motion
\* event before it (the press being one of the left button)
DragsOnlyWhileHeld ==
    mouse # <<>> =>
        \A n \in DOMAIN mouse.drags : \A d \in {mouse.drags[n]} : \A log \in {mouse.log} :
            /\ d.at \in DOMAIN log /\ log[d.at].type = "MOUSEMOTION"
            /\ \E j \in 1..(d.at - 1) :
                   /\ IsLeftPress(log[j])
                   /\ \A i \in (j + 1)..(d.at - 1) : ~IsLeftButton(log[i])
            /\ \E j \in 1..(d.at - 1) :
                   /\ IsLeftPress(log[j]) \/ log[j].type = "MOUSEMOTION"
                   /\ \A i \in (j + 1)..(d.at - 1) :
                          ~(IsLeftPress(log[i]) \/ log[i].type = "MOUSEMOTION")
                   /\ d.delta = <<log[d.at].pos[1] - log[j].pos[1],
                                  log[d.at].pos[2] - log[j].pos[2]>>

\* a drag was applied after a press of the left button and one of the right
\* button at another position
DragsOnlyWhileHeldWitness ==
    /\ mouse # <<>> /\ Len(mouse.drags) = 1 /\ Len(mouse.log) = 3
    /\ mouse.log[1] = Event("MOUSEBUTTONDOWN", "", 1, <<1, 1>>)
    /\ mouse.log[2] = Event("MOUSEBUTTONDOWN", "", 3, <<4, 2>>)
    /\ mouse.drags[1] = [at |-> 3, delta |-> <<3, 1>>]

====
